---- MODULE Spec2Model ----
(***************************************************************************)
(* A model of go-slim's expression language (package vm): the goyacc       *)
(* generated table-driven parser yyParserImpl.Parse, VM.Compile, and the   *)
(* evaluator VM.Eval with VM.Set / VM.Get, all from src/vm/parser.go.      *)
(*                                                                         *)
(* Go values are modelled as follows.                                      *)
(*   - a Go string is a sequence of one-character strings, so that         *)
(*     fmt.Sprint, strconv.ParseInt and concatenation work on characters;  *)
(*   - a Go array or slice is a sequence, Go index i being TLA+ index i+1; *)
(*   - an interface value is a record whose field k names the dynamic type.*)
(* The Lexer type (its Lex and Error methods) and the Expr node types are  *)
(* declared outside src/vm/parser.go; what the model assumes about them is *)
(* marked where it is used.                                                *)
(***************************************************************************)
EXTENDS Integers, Sequences, FiniteSets, TLC

(***************************************************************************)
(* Bounds of the model.                                                    *)
(***************************************************************************)
\* longest token sequence the scanner delivers before end of input,
\* when every token of the language may appear
MaxTokens == 5
\* longest token sequence of a pure arithmetic source (integer literals,
\* the four operators and parentheses)
MaxArithTokens == 7
\* longest body expression after `for x in` / `for i, x in`
MaxForTokens == 3

\* the opening parentheses of a deeply nested source (the stack has
\* yyInitialStackSize places), and the tokens after them
MaxDeepTokens == 17
MaxTailTokens == 3
\* width of the model's int64 (the program's is 64)
IntBits == 8

(***************************************************************************)
(* Generic helpers.                                                        *)
(***************************************************************************)
\* Go's a[i] for a 0-based array or slice a
At(a, i) == a[i + 1]

\* Go's len(a)
len(a) == Len(a)

(***************************************************************************)
(* Token codes and parser tables (goyacc output).                          *)
(***************************************************************************)
IDENT == 57346
LIT == 57347
FOR == 57348
\* the token IN (IN is a reserved word of TLA+)
IN_ == 57349

yyEofCode == 1
yyErrCode == 2
yyInitialStackSize == 16

\* a table whose state 1 accepts on any lookahead, not on the end alone
yyExcaAcceptsAnywhere == << -1, 1, 1, -1, -2, -1 >>

yyExca == << -1, 1, 1, -1, -2, 0 >>

yyPrivate == 57344

yyLast == 53

yyAct == <<
    26, 3, 31, 25, 37, 31, 14, 32, 29, 18,
    19, 20, 21, 15, 23, 16, 17, 27, 8, 9,
    10, 11, 12, 13, 30, 24, 8, 9, 10, 11,
    12, 13, 35, 34, 36, 8, 9, 10, 11, 12,
    13, 6, 4, 2, 6, 4, 5, 28, 33, 5,
    22, 7, 1 >>

yyPact == <<
    37, -1000, 47, 24, -1000, 40, 4, 8, 40, 40,
    40, 40, 46, 40, 15, 40, 40, 43, 24, 24,
    24, 24, -1, 7, -1000, -3, 24, 24, 41, 40,
    -1000, 40, -1000, 40, -6, 24, 24, -1000 >>

yyPgo == << 0, 52, 0, 3 >>

yyR1 == <<
    0, 1, 1, 1, 3, 3, 3, 2, 2, 2,
    2, 2, 2, 2, 2, 2, 2, 2 >>

yyR2 == <<
    0, 4, 6, 1, 0, 1, 3, 1, 3, 3,
    3, 3, 3, 4, 6, 3, 4, 1 >>

yyChk == <<
    -1000, -1, 6, -2, 5, 9, 4, 4, 11, 12,
    13, 14, 15, 16, -2, 9, 7, 8, -2, -2,
    -2, -2, 4, -2, 10, -3, -2, -2, 4, 9,
    17, 8, 10, 7, -3, -2, -2, 10 >>

yyDef == <<
    0, -2, 0, 3, 7, 0, 17, 0, 0, 0,
    0, 0, 0, 0, 0, 4, 0, 0, 9, 10,
    11, 12, 15, 0, 8, 0, 5, 1, 0, 4,
    16, 0, 13, 0, 0, 6, 2, 14 >>

yyTok1 == <<
    1, 3, 3, 3, 3, 3, 3, 3, 3, 3,
    3, 3, 3, 3, 3, 3, 3, 3, 3, 3,
    3, 3, 3, 3, 3, 3, 3, 3, 3, 3,
    3, 3, 3, 3, 3, 3, 3, 3, 3, 3,
    9, 10, 13, 11, 8, 12, 15, 14, 3, 3,
    3, 3, 3, 3, 3, 3, 3, 3, 3, 3,
    3, 3, 3, 3, 3, 3, 3, 3, 3, 3,
    3, 3, 3, 3, 3, 3, 3, 3, 3, 3,
    3, 3, 3, 3, 3, 3, 3, 3, 3, 3,
    3, 16, 3, 17 >>

yyTok2 == << 2, 3, 4, 5, 6, 7 >>

yyTok3 == << 0 >>

yyFlag == -1000

(***************************************************************************)
(* Values: Go interface{} values.  Field k is the dynamic type (for a      *)
(* scalar) or its kind; n is the number of an integer kind, n/d that of a  *)
(* float kind, s the text of a string or the message of an error.          *)
(*                                                                         *)
(* TLC's integers are 32 bits wide, so the model's int64 is IntBits wide:  *)
(* two's complement, MinInt .. MaxInt, with Go's wrap-around.              *)
(***************************************************************************)
RECURSIVE Pow2(_)
Pow2(n) == IF n = 0 THEN 1 ELSE 2 * Pow2(n - 1)

MaxInt == Pow2(IntBits - 1) - 1

MinInt == -Pow2(IntBits - 1)

\* the int64 a mathematical integer wraps to
Wrap(x) == ((x - MinInt) % Pow2(IntBits)) + MinInt

NilVal == [k |-> "nil", n |-> 0, d |-> 1, s |-> <<>>]

IntV(i) == [k |-> "int", n |-> i, d |-> 1, s |-> <<>>]

Int32V(i) == [k |-> "int32", n |-> i, d |-> 1, s |-> <<>>]

Int64V(i) == [k |-> "int64", n |-> i, d |-> 1, s |-> <<>>]

\* the float64 n/d; d = 0 for +Inf (n = 1), -Inf (n = -1) and NaN (n = 0)
Float64V(n, d) == [k |-> "float64", n |-> n, d |-> d, s |-> <<>>]

Float32V(n, d) == [k |-> "float32", n |-> n, d |-> d, s |-> <<>>]

StringV(str) == [k |-> "string", n |-> 0, d |-> 1, s |-> str]

BoolV(b) == [k |-> "bool", n |-> IF b THEN 1 ELSE 0, d |-> 1, s |-> <<>>]

\* a non-nil error value with message msg
ErrorVal(msg) == [k |-> "error", n |-> 0, d |-> 1, s |-> msg]

(***************************************************************************)
(* fmt.Sprint, strconv.ParseInt and strconv.ParseFloat on texts.           *)
(***************************************************************************)
Digits == <<"0", "1", "2", "3", "4", "5", "6", "7", "8", "9">>

\* the value of a digit character, -1 for any other character
DigitVal(c) == IF \E i \in 0..9 : At(Digits, i) = c
               THEN CHOOSE i \in 0..9 : At(Digits, i) = c
               ELSE -1

Abs(x) == IF x < 0 THEN -x ELSE x

RECURSIVE Gcd(_, _)
Gcd(a, b) == IF b = 0 THEN a ELSE Gcd(b, a % b)

\* the decimal digits of u >= 0
RECURSIVE FormatUint(_)
FormatUint(u) ==
    IF u < 10 THEN <<At(Digits, u)>> ELSE Append(FormatUint(u \div 10), At(Digits, u % 10))

\* strconv.FormatInt(i, 10)
FormatInt(i) == IF i < 0 THEN <<"-">> \o FormatUint(-i) ELSE FormatUint(i)

\* the decimal digits of the fraction num/den, 0 <= num < den, den a power of 2
RECURSIVE FormatFrac(_, _)
FormatFrac(num, den) ==
    IF num = 0 THEN <<>>
    ELSE <<At(Digits, (num * 10) \div den)>> \o FormatFrac((num * 10) % den, den)

\* %v of a float: the shortest decimal that reads back as the same value.
\* The model's floats are fractions n/d with d a power of two and a magnitude
\* in [1e-4, 1e21), which Go prints without an exponent.
FormatFloat(n, d) ==
    IF d = 0 THEN (IF n > 0 THEN <<"+", "I", "n", "f">>
                   ELSE IF n < 0 THEN <<"-", "I", "n", "f">>
                   ELSE <<"N", "a", "N">>)
    ELSE LET a == Abs(n)
             frac == FormatFrac(a % d, d)
         IN (IF n < 0 THEN <<"-">> ELSE <<>>) \o FormatUint(a \div d)
            \o (IF frac = <<>> THEN <<>> ELSE <<".">> \o frac)

\* fmt.Sprint of one operand.  Of a value that is neither a number, a string,
\* a bool, an error nor nil, only the kind is kept (Go prints its contents or
\* its address).
Sprint(v) ==
    CASE v.k = "nil" -> <<"<", "n", "i", "l", ">">>
      [] v.k \in {"int", "int32", "int64"} -> FormatInt(v.n)
      [] v.k \in {"float32", "float64"} -> FormatFloat(v.n, v.d)
      [] v.k = "string" -> v.s
      [] v.k = "error" -> v.s
      [] v.k = "bool" -> IF v.n = 1 THEN <<"t", "r", "u", "e">>
                         ELSE <<"f", "a", "l", "s", "e">>
      [] OTHER -> <<"(", v.k, ")">>

\* the number a run of decimal digits denotes, -1 if s is empty or holds
\* another character, -2 if the number is past MaxInt + 1
RECURSIVE ParseUint(_, _)
ParseUint(s, acc) ==
    IF s = <<>> THEN acc
    ELSE IF DigitVal(Head(s)) < 0 THEN -1
    ELSE IF acc * 10 + DigitVal(Head(s)) > MaxInt + 1 THEN -2
    ELSE ParseUint(Tail(s), acc * 10 + DigitVal(Head(s)))

\* strconv.ParseInt(s, 10, 64): [n, ok], ok = FALSE for its syntax and range errors
ParseInt(s) ==
    LET neg == s # <<>> /\ Head(s) = "-"
        body == IF s # <<>> /\ Head(s) \in {"+", "-"} THEN Tail(s) ELSE s
        un == IF body = <<>> THEN -1 ELSE ParseUint(body, 0)
    IN IF un < 0 THEN [n |-> 0, ok |-> FALSE]
       ELSE IF ~neg /\ un > MaxInt THEN [n |-> 0, ok |-> FALSE]
       ELSE [n |-> IF neg THEN -un ELSE un, ok |-> TRUE]

\* the position of the first "." of s, 0 if there is none
RECURSIVE IndexDot(_, _)
IndexDot(s, i) ==
    IF i > Len(s) THEN 0 ELSE IF s[i] = "." THEN i ELSE IndexDot(s, i + 1)

RECURSIVE Pow10(_)
Pow10(n) == IF n = 0 THEN 1 ELSE 10 * Pow10(n - 1)

\* strconv.ParseFloat(s, 64): [n, d, ok].  Decimal texts with an optional sign
\* and fraction, and the texts fmt.Sprint gives infinities and NaN; the model
\* holds no text with an exponent, a hexadecimal mantissa or another spelling
\* of infinity.
ParseFloat(s) ==
    LET neg == s # <<>> /\ Head(s) = "-"
        body == IF s # <<>> /\ Head(s) \in {"+", "-"} THEN Tail(s) ELSE s
        dot == IndexDot(body, 1)
        ip == IF dot = 0 THEN body ELSE SubSeq(body, 1, dot - 1)
        fp == IF dot = 0 THEN <<>> ELSE SubSeq(body, dot + 1, Len(body))
        iv == IF ip = <<>> THEN 0 ELSE ParseUint(ip, 0)
        fv == IF fp = <<>> THEN 0 ELSE ParseUint(fp, 0)
        num == iv * Pow10(Len(fp)) + fv
        g == Gcd(num, Pow10(Len(fp)))
    IN IF body = <<"I", "n", "f">> THEN [n |-> IF neg THEN -1 ELSE 1, d |-> 0, ok |-> TRUE]
       ELSE IF s = <<"N", "a", "N">> THEN [n |-> 0, d |-> 0, ok |-> TRUE]
       ELSE IF (ip = <<>> /\ fp = <<>>) \/ iv < 0 \/ fv < 0 THEN [n |-> 0, d |-> 1, ok |-> FALSE]
       ELSE [n |-> (IF neg THEN -num ELSE num) \div g, d |-> Pow10(Len(fp)) \div g, ok |-> TRUE]

(***************************************************************************)
(* Host values that are not scalars, as reflect sees them.                 *)
(*   func:   name identifies the callable in the log of host calls; in is  *)
(*           the list of its parameter types ("any" is interface{}); out   *)
(*           is what it returns, each with its declared type.              *)
(*   struct: fields by name; vm the methods with a value receiver and pm   *)
(*           those with a pointer receiver, by name.                       *)
(*   ptr / iface: a pointer or an interface holding elem; Invalid inside   *)
(*           is the nil pointer or nil interface.                          *)
(*   map:    key is the key type, m the entries (by key text).             *)
(*   slice:  elems.                                                        *)
(***************************************************************************)
\* the zero reflect.Value
Invalid == [k |-> "invalid"]

Func(name, in, out) == [k |-> "func", name |-> name, in |-> in, out |-> out]

Struct(type, fields, vm, pm) == [k |-> "struct", type |-> type, fields |-> fields, vm |-> vm, pm |-> pm]

Ptr(elem) == [k |-> "ptr", elem |-> elem]

Iface(elem) == [k |-> "iface", elem |-> elem]

Map(key, m) == [k |-> "map", key |-> key, m |-> m]

Slice(elems) == [k |-> "slice", elems |-> elems]

\* a declared result of a callable
Out(type, v) == [type |-> type, v |-> v]

\* reflect.ValueOf(i)
ValueOf(i) == IF i.k = "nil" THEN Invalid ELSE i

\* rv.Interface()
Interface(rv) == IF rv.k = "invalid" THEN NilVal ELSE rv

\* a type: the named type, or the pointer to it
Type(name) == [ptr |-> FALSE, name |-> name]

PtrTo(name) == [ptr |-> TRUE, name |-> name]

\* the empty interface, interface{}
AnyType == Type("interface {}")

\* the dynamic type of a value
TypeOf(v) == IF v.k = "struct" THEN Type(v.type)
             ELSE IF v.k = "ptr" /\ v.elem.k = "struct" THEN PtrTo(v.elem.type)
             ELSE Type(v.k)

\* whether reflect.Value.Call accepts rv for a parameter of type pt
AssignableTo(rv, pt) ==
    /\ rv.k # "invalid"
    /\ \/ pt = AnyType
       \/ TypeOf(rv) = pt
       \/ pt = Type("error") /\ rv.k = "error"

(***************************************************************************)
(* What one call of Eval gives: the pair (v, err) it returns, or a panic   *)
(* it does not recover; calls lists the host callables it invoked, in      *)
(* order, each with its arguments.                                         *)
(***************************************************************************)
Returns(v, err, calls) == [v |-> v, err |-> err, panic |-> FALSE, calls |-> calls]

Panics(calls) == [v |-> NilVal, err |-> NilVal, panic |-> TRUE, calls |-> calls]

\* errors.New(text + name)
ErrorsNew(text, name) == ErrorVal(<<text>> \o name)

\* a loop that stops after one layer
derefOnce(rv) == IF rv.k \in {"iface", "ptr"} THEN rv.elem ELSE rv

\* deref, lines 601-615: [rv, err]
RECURSIVE derefLoop(_)
derefLoop(rv) == IF rv.k \in {"iface", "ptr"} THEN derefLoop(rv.elem) ELSE rv

deref(rv) ==
    LET r == derefLoop(rv)
    IN IF r.k = "invalid"
       THEN [rv |-> r, err |-> ErrorsNew("cannot reference value", <<>>)]
       ELSE [rv |-> r, err |-> NilVal]

\* a quotient rounded down
QuoFloors(li, ri) ==
    Wrap(IF (li < 0) = (ri < 0) THEN Abs(li) \div Abs(ri)
         ELSE -((Abs(li) + Abs(ri) - 1) \div Abs(ri)))

\* Go's quotient of two int64: truncated toward zero, then wrapped
Quo(li, ri) ==
    Wrap(IF (li < 0) = (ri < 0) THEN Abs(li) \div Abs(ri) ELSE -(Abs(li) \div Abs(ri)))

\* the float n/d in lowest terms, d > 0
Frac(n, d) ==
    LET g == Gcd(Abs(n), Abs(d))
    IN IF d < 0 THEN [n |-> (-n) \div g, d |-> (-d) \div g] ELSE [n |-> n \div g, d |-> d \div g]

Sign(x) == IF x > 0 THEN 1 ELSE IF x < 0 THEN -1 ELSE 0

\* float64 arithmetic on fractions n/d (d = 0: an infinity or NaN).  The
\* result is the exact fraction: rounding to 53 bits is not modelled.
FloatOp(op, a, b) ==
    LET nan == [n |-> 0, d |-> 0]
        inf(sg) == [n |-> sg, d |-> 0]
        aNaN == a.d = 0 /\ a.n = 0
        bNaN == b.d = 0 /\ b.n = 0
        aInf == a.d = 0 /\ a.n # 0
        bInf == b.d = 0 /\ b.n # 0
        bb == IF op = "-" THEN [n |-> -b.n, d |-> b.d] ELSE b
    IN IF aNaN \/ bNaN THEN nan
       ELSE CASE op \in {"+", "-"} ->
                   IF aInf /\ bInf THEN (IF a.n = bb.n THEN a ELSE nan)
                   ELSE IF aInf THEN a
                   ELSE IF bInf THEN bb
                   ELSE Frac(a.n * bb.d + bb.n * a.d, a.d * bb.d)
              [] op = "*" ->
                   IF aInf \/ bInf
                   THEN (IF Sign(a.n) * Sign(b.n) = 0 THEN nan ELSE inf(Sign(a.n) * Sign(b.n)))
                   ELSE Frac(a.n * b.n, a.d * b.d)
              [] op = "/" ->
                   IF aInf /\ bInf THEN nan
                   ELSE IF aInf THEN inf(IF b.n < 0 THEN -a.n ELSE a.n)
                   ELSE IF bInf THEN [n |-> 0, d |-> 1]
                   ELSE IF b.n = 0 THEN (IF a.n = 0 THEN nan ELSE inf(Sign(a.n)))
                   ELSE Frac(a.n * b.d, a.d * b.n)

\* a string case that concatenates strings only
StringOpOfStrings(op, vt, rhs, calls) ==
    IF op = "+" /\ rhs.k = "string" THEN Returns(StringV(vt.s \o rhs.s), NilVal, calls)
    ELSE Returns(NilVal, ErrorsNew("unknown operator", <<>>), calls)

\* case string of the type switch, lines 646-651
StringOp(op, vt, rhs, calls) ==
    IF op = "+" THEN Returns(StringV(vt.s \o Sprint(rhs)), NilVal, calls)
    ELSE Returns(NilVal, ErrorsNew("unknown operator", <<>>), calls)

\* VM.Eval, case *BinOpExpr, lines 645-694, once both operands are evaluated
BinOp(op, lhs, rhs, calls) ==
    CASE lhs.k = "string" -> StringOp(op, lhs, rhs, calls)
      [] lhs.k \in {"int", "int32", "int64"} ->
           LET li == ParseInt(Sprint(lhs))
               ri == ParseInt(Sprint(rhs))
           IN IF ~li.ok THEN Returns(NilVal, ErrorsNew("strconv.ParseInt: ", Sprint(lhs)), calls)
              ELSE IF ~ri.ok
              THEN Returns(NilVal, ErrorsNew("strconv.ParseInt: ", Sprint(rhs)), calls)
              ELSE CASE op = "+" -> Returns(Int64V(Wrap(li.n + ri.n)), NilVal, calls)
                     [] op = "-" -> Returns(Int64V(Wrap(li.n - ri.n)), NilVal, calls)
                     [] op = "*" -> Returns(Int64V(Wrap(li.n * ri.n)), NilVal, calls)
                     [] op = "/" -> IF ri.n = 0 THEN Panics(calls)
                                    ELSE Returns(Int64V(Quo(li.n, ri.n)), NilVal, calls)
                     [] OTHER -> Returns(NilVal, ErrorsNew("unknown operator", <<>>), calls)
      [] lhs.k \in {"float32", "float64"} ->
           LET lf == ParseFloat(Sprint(lhs))
               rf == ParseFloat(Sprint(rhs))
           IN IF ~lf.ok THEN Returns(NilVal, ErrorsNew("strconv.ParseFloat: ", Sprint(lhs)), calls)
              ELSE IF ~rf.ok
              THEN Returns(NilVal, ErrorsNew("strconv.ParseFloat: ", Sprint(rhs)), calls)
              ELSE IF op \in {"+", "-", "*", "/"}
              THEN LET f == FloatOp(op, lf, rf)
                   IN Returns(Float64V(f.n, f.d), NilVal, calls)
              ELSE Returns(NilVal, ErrorsNew("unknown operator", <<>>), calls)
      [] OTHER -> Returns(NilVal, ErrorsNew("invalid type conversion", <<>>), calls)

(***************************************************************************)
(* Expr: the AST nodes the parser's semantic actions construct.  NilExpr   *)
(* is the nil Expr interface value.  The node types are declared outside   *)
(* src/vm/parser.go; the field names are those the parser's composite      *)
(* literals and VM.Eval use (the receiver field is written Lhs by the      *)
(* parser and LHS by VM.Eval: one field, here LHS).                        *)
(***************************************************************************)
NilExpr == [type |-> "nil"]

IdentExpr(name) == [type |-> "IdentExpr", Name |-> name]

LitExpr(value) == [type |-> "LitExpr", Value |-> value]

BinOpExpr(op, lhs, rhs) == [type |-> "BinOpExpr", Op |-> op, LHS |-> lhs, RHS |-> rhs]

CallExpr(name, exprs) == [type |-> "CallExpr", Name |-> name, Exprs |-> exprs]

MethodCallExpr(lhs, name, exprs) ==
    [type |-> "MethodCallExpr", LHS |-> lhs, Name |-> name, Exprs |-> exprs]

MemberExpr(lhs, name) == [type |-> "MemberExpr", LHS |-> lhs, Name |-> name]

\* a node with its operands in each other's field
ItemExprSwapped(lhs, index) == [type |-> "ItemExpr", LHS |-> index, Index |-> lhs]

ItemExpr(lhs, index) == [type |-> "ItemExpr", LHS |-> lhs, Index |-> index]

\* a node with its variables in each other's field
ForExprSwapped(v1, v2, body) ==
    [type |-> "ForExpr", Var1 |-> v2, Var2 |-> v1, Body |-> body]

ForExpr(v1, v2, body) == [type |-> "ForExpr", Var1 |-> v1, Var2 |-> v2, Body |-> body]

(***************************************************************************)
(* VM: New, Set, Get and Eval.                                             *)
(***************************************************************************)
\* New: make(map[string]interface{})
New == [n \in {} |-> NilVal]

\* a Set that keeps no other binding
SetAlone(env, n, vv) == [m \in {n} |-> vv]

\* v.env[n] = vv
Set(env, n, vv) == [m \in DOMAIN env \cup {n} |-> IF m = n THEN vv ELSE env[m]]

\* val, ok := v.env[n]
Get(env, n) == IF n \in DOMAIN env THEN [val |-> env[n], ok |-> TRUE]
               ELSE [val |-> NilVal, ok |-> FALSE]

\* whether a field or method name is exported
Upper == {"A", "B", "C", "D", "E", "F", "G", "H", "I", "J", "K", "L", "M", "N", "O", "P",
          "Q", "R", "S", "T", "U", "V", "W", "X", "Y", "Z"}

IsExported(name) == name # <<>> /\ Head(name) \in Upper

\* reflect.Value.Call: whether it panics on these arguments
CallPanics(rf, args) ==
    \/ rf.k # "func"
    \/ Len(args) # Len(rf.in)
    \/ \E i \in 1..Len(args) : ~AssignableTo(args[i], rf.in[i])

\* a call that gives no value along with an error
CallDropsValue(rf, args, calls) ==
    IF CallPanics(rf, args) THEN Panics(calls)
    ELSE LET log == Append(calls, [name |-> rf.name, args |-> args])
             vals == [i \in 1..Len(rf.out) |-> Interface(ValueOf(rf.out[i].v))]
         IN IF Len(rf.out) = 0 THEN Returns(NilVal, NilVal, log)
            ELSE IF Len(rf.out) = 1 THEN Returns(vals[1], NilVal, log)
            ELSE IF vals[2].k = "error" THEN Returns(NilVal, vals[2], log)
            ELSE Returns(vals[1], NilVal, log)

\* a call that is made before the arguments are evaluated
CallFirst(rf, args, calls) ==
    IF CallPanics(rf, args) THEN Panics(calls)
    ELSE LET log == <<[name |-> rf.name, args |-> args]>> \o calls
             vals == [i \in 1..Len(rf.out) |-> Interface(ValueOf(rf.out[i].v))]
         IN IF Len(rf.out) = 0 THEN Returns(NilVal, NilVal, log)
            ELSE IF Len(rf.out) = 1 THEN Returns(vals[1], NilVal, log)
            ELSE IF vals[2].k = "error" THEN Returns(vals[1], vals[2], log)
            ELSE Returns(vals[1], NilVal, log)

\* lines 706-720 and 777-791: the call and what Eval makes of its results
Call(rf, args, calls) ==
    IF CallPanics(rf, args) THEN Panics(calls)
    ELSE LET log == Append(calls, [name |-> rf.name, args |-> args])
             vals == [i \in 1..Len(rf.out) |-> Interface(ValueOf(rf.out[i].v))]
         IN IF Len(rf.out) = 0 THEN Returns(NilVal, NilVal, log)
            ELSE IF Len(rf.out) = 1 THEN Returns(vals[1], NilVal, log)
            ELSE IF vals[2].k = "error" THEN Returns(vals[1], vals[2], log)
            ELSE Returns(vals[1], NilVal, log)

\* rv.FieldByName(name).Interface() and rv.MapIndex(key).Interface(), with
\* the error the caller returns when there is no such field or key
Field(rv, name, calls, msg) ==
    IF name \notin DOMAIN rv.fields THEN Returns(NilVal, ErrorsNew(msg, <<>>), calls)
    ELSE IF ~IsExported(name) THEN Panics(calls)
    ELSE Returns(Interface(rv.fields[name]), NilVal, calls)

MapIndex(rv, key, calls, msg) ==
    IF rv.key # Type("string") THEN Panics(calls)
    ELSE IF key \notin DOMAIN rv.m THEN Returns(NilVal, ErrorsNew(msg, <<>>), calls)
    ELSE Returns(Interface(rv.m[key]), NilVal, calls)

\* rv.MethodByName(name): the method, Invalid if there is none
MethodByName(rv, name) ==
    IF rv.k = "struct" /\ name \in DOMAIN rv.vm THEN rv.vm[name] ELSE Invalid

\* a lookup that finds no method on the pointer
NoPtrMethodByName(rv, name) == Invalid

\* lines 762-764: the method of a pointer to a copy of rv
PtrMethodByName(rv, name) ==
    IF rv.k = "struct" /\ name \in DOMAIN rv.vm THEN rv.vm[name]
    ELSE IF rv.k = "struct" /\ name \in DOMAIN rv.pm THEN rv.pm[name]
    ELSE Invalid

RECURSIVE Eval(_, _)
RECURSIVE EvalArgs(_, _, _, _, _)

\* evalAndDerefRv, lines 617-624: [rv, err, panic, calls]
evalAndDerefRv(env, expr, calls) ==
    LET r == Eval(env, expr)
        log == calls \o r.calls
    IN IF r.panic THEN [rv |-> Invalid, err |-> NilVal, panic |-> TRUE, calls |-> log]
       ELSE IF r.err # NilVal THEN [rv |-> Invalid, err |-> r.err, panic |-> FALSE, calls |-> log]
       ELSE LET d == deref(ValueOf(r.v))
            IN [rv |-> d.rv, err |-> d.err, panic |-> FALSE, calls |-> log]

\* the argument loops of lines 699-705 and 770-776, from argument i on:
\* [args, err, panic, calls]
EvalArgs(env, exprs, i, dereferenced, acc) ==
    IF i > Len(exprs) THEN acc
    ELSE IF dereferenced
    THEN LET r == evalAndDerefRv(env, exprs[i], acc.calls)
         IN IF r.panic \/ r.err # NilVal
            THEN [args |-> acc.args, err |-> r.err, panic |-> r.panic, calls |-> r.calls]
            ELSE EvalArgs(env, exprs, i + 1, dereferenced,
                          [acc EXCEPT !.args = Append(acc.args, r.rv), !.calls = r.calls])
    ELSE LET r == Eval(env, exprs[i])
         IN IF r.panic \/ r.err # NilVal
            THEN [args |-> acc.args, err |-> r.err, panic |-> r.panic,
                  calls |-> acc.calls \o r.calls]
            ELSE EvalArgs(env, exprs, i + 1, dereferenced,
                          [acc EXCEPT !.args = Append(acc.args, ValueOf(r.v)),
                                      !.calls = acc.calls \o r.calls])

\* an evaluation of both operands, the right one first, before any error
\* is looked at
EvalBothOperands(env, expr) ==
    LET r == Eval(env, expr.RHS)
        l == Eval(env, expr.LHS)
        log == r.calls \o l.calls
    IN IF l.panic \/ r.panic THEN Panics(log)
       ELSE IF l.err # NilVal THEN Returns(NilVal, l.err, log)
       ELSE IF r.err # NilVal THEN Returns(NilVal, r.err, log)
       ELSE BinOp(expr.Op, l.v, r.v, log)

\* the case *BinOpExpr of Eval, lines 636-694
EvalBinOpExpr(env, expr) ==
    LET l == Eval(env, expr.LHS)
    IN IF l.panic THEN l
       ELSE IF l.err # NilVal THEN Returns(NilVal, l.err, l.calls)
       ELSE LET r == Eval(env, expr.RHS)
            IN IF r.panic THEN Panics(l.calls \o r.calls)
               ELSE IF r.err # NilVal THEN Returns(NilVal, r.err, l.calls \o r.calls)
               ELSE BinOp(expr.Op, l.v, r.v, l.calls \o r.calls)

\* VM.Eval, lines 627-815
Eval(env, expr) ==
    CASE expr.type = "IdentExpr" ->
           IF expr.Name \in DOMAIN env THEN Returns(env[expr.Name], NilVal, <<>>)
           ELSE Returns(NilVal, ErrorsNew("invalid token: ", expr.Name), <<>>)
      [] expr.type = "LitExpr" -> Returns(expr.Value, NilVal, <<>>)
      [] expr.type = "BinOpExpr" -> EvalBinOpExpr(env, expr)
      [] expr.type = "CallExpr" ->
           IF expr.Name \in DOMAIN env
           THEN LET a == EvalArgs(env, expr.Exprs, 1, FALSE,
                                  [args |-> <<>>, err |-> NilVal, panic |-> FALSE,
                                   calls |-> <<>>])
                IN IF a.panic THEN Panics(a.calls)
                   ELSE IF a.err # NilVal THEN Returns(NilVal, a.err, a.calls)
                   ELSE Call(ValueOf(env[expr.Name]), a.args, a.calls)
           ELSE Returns(NilVal, ErrorsNew("invalid token: ", expr.Name), <<>>)
      [] expr.type = "ItemExpr" ->
           LET l == evalAndDerefRv(env, expr.LHS, <<>>)
           IN IF l.panic THEN Panics(l.calls)
              ELSE IF l.err # NilVal THEN Returns(NilVal, l.err, l.calls)
              ELSE LET r == Eval(env, expr.Index)
                       log == l.calls \o r.calls
                   IN IF r.panic THEN Panics(log)
                      ELSE IF r.err # NilVal THEN Returns(NilVal, r.err, log)
                      ELSE IF l.rv.k = "struct"
                      THEN Field(l.rv, Sprint(r.v), log, "cannot reference item")
                      ELSE IF l.rv.k = "map"
                      THEN MapIndex(l.rv, Sprint(r.v), log, "cannot reference item")
                      ELSE IF l.rv.k = "slice"
                      THEN IF r.v.k = "nil" THEN Panics(log)
                           ELSE IF r.v.k = "int64"
                           THEN IF r.v.n < 0 \/ r.v.n >= Len(l.rv.elems) THEN Panics(log)
                                ELSE Returns(Interface(At(l.rv.elems, r.v.n)), NilVal, log)
                           ELSE Returns(NilVal, ErrorsNew("cannot reference item", <<>>), log)
                      ELSE Returns(NilVal, ErrorsNew("cannot reference item", <<>>), log)
      [] expr.type = "MethodCallExpr" ->
           LET l == evalAndDerefRv(env, expr.LHS, <<>>)
           IN IF l.panic THEN Panics(l.calls)
              ELSE IF l.err # NilVal THEN Returns(NilVal, l.err, l.calls)
              ELSE LET meth == IF MethodByName(l.rv, expr.Name) # Invalid
                               THEN MethodByName(l.rv, expr.Name)
                               ELSE PtrMethodByName(l.rv, expr.Name)
                   IN IF meth = Invalid
                      THEN Returns(NilVal, ErrorsNew("cannot reference method: ", expr.Name),
                                   l.calls)
                      ELSE LET a == EvalArgs(env, expr.Exprs, 1, TRUE,
                                             [args |-> <<>>, err |-> NilVal, panic |-> FALSE,
                                              calls |-> l.calls])
                           IN IF a.panic THEN Panics(a.calls)
                              ELSE IF a.err # NilVal THEN Returns(NilVal, a.err, a.calls)
                              ELSE Call(meth, a.args, a.calls)
      [] expr.type = "MemberExpr" ->
           LET l == evalAndDerefRv(env, expr.LHS, <<>>)
           IN IF l.panic THEN Panics(l.calls)
              ELSE IF l.err # NilVal THEN Returns(NilVal, l.err, l.calls)
              ELSE IF l.rv.k = "struct"
              THEN Field(l.rv, expr.Name, l.calls, "cannot reference member")
              ELSE IF l.rv.k = "map"
              THEN MapIndex(l.rv, expr.Name, l.calls, "cannot reference member")
              ELSE Returns(NilVal, ErrorsNew("cannot reference member", <<>>), l.calls)
      [] OTHER -> Returns(NilVal, NilVal, <<>>)

(***************************************************************************)
(* yySymType and the parser's configuration.                               *)
(***************************************************************************)
\* the zero value of yySymType
yySymType == [yys |-> 0, expr |-> NilExpr, exprs |-> <<>>, str |-> <<>>, lit |-> NilVal]

\* make([]yySymType, n)
RECURSIVE make(_)
make(n) == IF n = 0 THEN <<>> ELSE Append(make(n - 1), yySymType)

\* &Lexer{new(scanner.Scanner), nil}: e is the result slot the parser's
\* rules 1-3 assign; errs lists the messages given to Error.
Lexer == [e |-> NilExpr, errs |-> <<>>]

\* The state of one run of Parse at its first label: the locals declared in
\* lines 289-307 and the receiver's fields.
yyNewParser ==
    [pc |-> "yystack", yyn |-> 0, yyVAL |-> yySymType, yyS |-> make(yyInitialStackSize),
     Nerrs |-> 0, Errflag |-> 0, yystate |-> 0, char |-> -1, yytoken |-> -1,
     yyp |-> -1, lval |-> yySymType, lex |-> Lexer]

(***************************************************************************)
(* Lexer.Lex and Lexer.Error.  A token is what one call of Lex delivers:   *)
(* the code it returns and what it stores in lval.                         *)
(***************************************************************************)
Tok(char, str, lit) == [char |-> char, str |-> str, lit |-> lit]

\* Lex at the end of the input
EofTok(c) == Tok(c, <<>>, NilVal)

\* what Lex leaves in *lval: the text of an identifier, the value of a literal
Lex(lval, tok) ==
    IF tok.char = IDENT THEN [lval EXCEPT !.str = tok.str]
    ELSE IF tok.char = LIT THEN [lval EXCEPT !.lit = tok.lit]
    ELSE lval

\* Error records the message
Error(lex, msg) == [lex EXCEPT !.errs = Append(lex.errs, msg)]

yyErrorVerbose == FALSE

yyErrorMessage(state, lookAhead) == "syntax error"

\* the token number yylex1 translates the lexer's code into
\* (the loop of lines 266-272; token is its value so far)
RECURSIVE yyTok3Lookup(_, _, _)
yyTok3Lookup(char, i, token) ==
    IF i >= len(yyTok3) THEN token
    ELSE IF At(yyTok3, i) = char THEN At(yyTok3, i + 1)
    ELSE yyTok3Lookup(char, i + 2, At(yyTok3, i))

yylex1(char) ==
    LET token == IF char <= 0 THEN At(yyTok1, 0)
                 ELSE IF char < len(yyTok1) THEN At(yyTok1, char)
                 ELSE IF char >= yyPrivate /\ char < yyPrivate + len(yyTok2)
                      THEN At(yyTok2, char - yyPrivate)
                 ELSE yyTok3Lookup(char, 0, 0)
    IN IF token = 0 THEN At(yyTok2, 1) ELSE token


(***************************************************************************)
(* yyParserImpl.Parse, one operator per label of the function.  Each takes *)
(* the configuration p and returns the configuration at the next label;    *)
(* tok is the token the lexer delivers if the step calls yylex1.           *)
(***************************************************************************)
\* return 0 / return 1, with the deferred function of lines 300-305
Return(p, label) ==
    [p EXCEPT !.pc = label, !.yystate = -1, !.char = -1, !.yytoken = -1]

\* a stack that is never enlarged
NoGrow(yyS) == yyS

\* lines 322-326 and 440-444: double the stack
Grow(yyS) == yyS \o make(len(yyS) * 2 - len(yyS))

\* yystack: put a state and value onto the stack (lines 315-328)
yystack(p) ==
    LET yyp == p.yyp + 1
        yyS == IF yyp >= len(p.yyS) THEN Grow(p.yyS) ELSE p.yyS
    IN [p EXCEPT !.pc = "yynewstate",
                 !.yyp = yyp,
                 !.yyS = [yyS EXCEPT ![yyp + 1] = [p.yyVAL EXCEPT !.yys = p.yystate]]]

\* the call of yylex1 in lines 335-337 and 358-360
ReadToken(p, tok) ==
    IF p.char < 0
    THEN [p EXCEPT !.char = tok.char, !.yytoken = yylex1(tok.char),
                   !.lval = Lex(p.lval, tok)]
    ELSE p

\* whether the step at p's label asks the lexer for a token
CallsLex(p) ==
    \/ p.pc = "yynewstate" /\ At(yyPact, p.yystate) > yyFlag /\ p.char < 0
    \/ p.pc = "yydefault" /\ At(yyDef, p.yystate) = -2 /\ p.char < 0

\* yynewstate: shift the lookahead or go to the default action (lines 330-352)
yynewstate(p, tok) ==
    IF At(yyPact, p.yystate) <= yyFlag
    THEN [p EXCEPT !.pc = "yydefault", !.yyn = At(yyPact, p.yystate)]
    ELSE LET q == ReadToken(p, tok)
             yyn == At(yyPact, q.yystate) + q.yytoken
         IN IF yyn < 0 \/ yyn >= yyLast
            THEN [q EXCEPT !.pc = "yydefault", !.yyn = yyn]
            ELSE IF At(yyChk, At(yyAct, yyn)) = q.yytoken
                 THEN [q EXCEPT !.pc = "yystack",
                                !.yyn = At(yyAct, yyn),
                                !.char = -1,
                                !.yytoken = -1,
                                !.yyVAL = q.lval,
                                !.yystate = At(yyAct, yyn),
                                !.Errflag = IF q.Errflag > 0 THEN q.Errflag - 1
                                            ELSE q.Errflag]
                 ELSE [q EXCEPT !.pc = "yydefault", !.yyn = At(yyAct, yyn)]

\* the exception table (lines 362-376): the entry of yystate, then the
\* action of yytoken or of the entry's default
RECURSIVE ExcaEntry(_, _)
ExcaEntry(yystate, xi) ==
    IF At(yyExca, xi) = -1 /\ At(yyExca, xi + 1) = yystate THEN xi
    ELSE ExcaEntry(yystate, xi + 2)

RECURSIVE ExcaAction(_, _)
ExcaAction(yytoken, xi) ==
    IF At(yyExca, xi) < 0 \/ At(yyExca, xi) = yytoken THEN At(yyExca, xi + 1)
    ELSE ExcaAction(yytoken, xi + 2)

\* yydefault: the default action of the state (lines 354-381 and 428):
\* accept, an error, or a reduction by production yyn
yydefault(p, tok) ==
    IF At(yyDef, p.yystate) = -2
    THEN LET q == ReadToken(p, tok)
             yyn == ExcaAction(q.yytoken, ExcaEntry(q.yystate, 0) + 2)
         IN IF yyn < 0 THEN Return([q EXCEPT !.yyn = yyn], "ret0")
            ELSE [q EXCEPT !.yyn = yyn, !.pc = IF yyn = 0 THEN "error" ELSE "reduce"]
    ELSE [p EXCEPT !.yyn = At(yyDef, p.yystate),
                   !.pc = IF At(yyDef, p.yystate) = 0 THEN "error" ELSE "reduce"]

\* a recovery that starts again from the initial state
ErrorShiftResumes(p) == [p EXCEPT !.yyp = -1, !.yystate = 0, !.pc = "yystack"]

\* lines 397-413: pop the stack down to a state that shifts "error";
\* Pop(yyp) is the loop from the index yyp on
ErrorShift(p) ==
    LET RECURSIVE Pop(_)
        Pop(yyp) ==
            IF yyp >= 0
            THEN LET yyn == At(yyPact, At(p.yyS, yyp).yys) + yyErrCode
                 IN IF yyn >= 0 /\ yyn < yyLast /\ At(yyChk, At(yyAct, yyn)) = yyErrCode
                    THEN [p EXCEPT !.yyn = yyn, !.yystate = At(yyAct, yyn), !.yyp = yyp,
                                   !.pc = "yystack"]
                    ELSE Pop(yyp - 1)
            ELSE Return([p EXCEPT !.yyp = -1,
                                  !.yyn = IF p.yyp >= 0
                                          THEN At(yyPact, At(p.yyS, 0).yys) + yyErrCode
                                          ELSE p.yyn],
                        "ret1")
    IN Pop(p.yyp)

\* yyn == 0: error ... attempt to resume parsing (lines 381-426)
yyerror(p) ==
    IF p.Errflag = 0
    THEN ErrorShift([p EXCEPT !.lex = Error(p.lex, yyErrorMessage(p.yystate, p.yytoken)),
                              !.Nerrs = p.Nerrs + 1,
                              !.Errflag = 3])
    ELSE IF p.Errflag \in {1, 2}
    THEN ErrorShift([p EXCEPT !.Errflag = 3])
    ELSE IF p.Errflag = 3
    THEN IF p.yytoken = yyEofCode THEN Return(p, "ret1")
         ELSE [p EXCEPT !.char = -1, !.yytoken = -1, !.pc = "yynewstate"]
    ELSE [p EXCEPT !.pc = "reduce"]

\* the semantic action of production yynt (lines 461-565); D(i) is yyDollar[i]
Action(yynt, yyVAL, yyS, yypt, lex) ==
    LET D(i) == At(yyS, yypt - At(yyR2, yynt) + i)
    IN CASE yynt = 1 ->
              [yyVAL |-> yyVAL, lex |-> [lex EXCEPT !.e = ForExpr(D(2).str, <<>>, D(4).expr)]]
         [] yynt = 2 ->
              [yyVAL |-> yyVAL,
               lex |-> [lex EXCEPT !.e = ForExpr(D(2).str, D(4).str, D(6).expr)]]
         [] yynt = 3 -> [yyVAL |-> yyVAL, lex |-> [lex EXCEPT !.e = D(1).expr]]
         [] yynt = 4 -> [yyVAL |-> [yyVAL EXCEPT !.exprs = <<>>], lex |-> lex]
         [] yynt = 5 -> [yyVAL |-> [yyVAL EXCEPT !.exprs = <<D(1).expr>>], lex |-> lex]
         [] yynt = 6 ->
              [yyVAL |-> [yyVAL EXCEPT !.exprs = Append(D(1).exprs, D(3).expr)], lex |-> lex]
         [] yynt = 7 -> [yyVAL |-> [yyVAL EXCEPT !.expr = LitExpr(D(1).lit)], lex |-> lex]
         [] yynt = 8 -> [yyVAL |-> [yyVAL EXCEPT !.expr = D(2).expr], lex |-> lex]
         [] yynt = 9 ->
              [yyVAL |-> [yyVAL EXCEPT !.expr = BinOpExpr("+", D(1).expr, D(3).expr)],
               lex |-> lex]
         [] yynt = 10 ->
              [yyVAL |-> [yyVAL EXCEPT !.expr = BinOpExpr("-", D(1).expr, D(3).expr)],
               lex |-> lex]
         [] yynt = 11 ->
              [yyVAL |-> [yyVAL EXCEPT !.expr = BinOpExpr("*", D(1).expr, D(3).expr)],
               lex |-> lex]
         [] yynt = 12 ->
              [yyVAL |-> [yyVAL EXCEPT !.expr = BinOpExpr("/", D(1).expr, D(3).expr)],
               lex |-> lex]
         [] yynt = 13 ->
              [yyVAL |-> [yyVAL EXCEPT !.expr = CallExpr(D(1).str, D(3).exprs)], lex |-> lex]
         [] yynt = 14 ->
              [yyVAL |-> [yyVAL EXCEPT
                            !.expr = MethodCallExpr(D(1).expr, D(3).str, D(5).exprs)],
               lex |-> lex]
         [] yynt = 15 ->
              [yyVAL |-> [yyVAL EXCEPT !.expr = MemberExpr(D(1).expr, D(3).str)], lex |-> lex]
         [] yynt = 16 ->
              [yyVAL |-> [yyVAL EXCEPT !.expr = ItemExpr(D(1).expr, D(3).expr)], lex |-> lex]
         [] yynt = 17 -> [yyVAL |-> [yyVAL EXCEPT !.expr = IdentExpr(D(1).str)], lex |-> lex]
         [] OTHER -> [yyVAL |-> yyVAL, lex |-> lex]

\* consult goto table to find next state (lines 447-459)
Goto(yyn, yys) ==
    LET yyg == At(yyPgo, yyn)
        yyj == yyg + yys + 1
    IN IF yyj >= yyLast THEN At(yyAct, yyg)
       ELSE IF At(yyChk, At(yyAct, yyj)) # -yyn THEN At(yyAct, yyg)
       ELSE At(yyAct, yyj)

\* reduction by production yyn (lines 428-566)
yyreduce(p) ==
    LET yynt == p.yyn
        yypt == p.yyp
        yyp == p.yyp - At(yyR2, p.yyn)
        yyS == IF yyp + 1 >= len(p.yyS) THEN Grow(p.yyS) ELSE p.yyS
        yyn == At(yyR1, p.yyn)
        act == Action(yynt, At(yyS, yyp + 1), yyS, yypt, p.lex)
    IN [p EXCEPT !.pc = "yystack",
                 !.yyp = yyp,
                 !.yyS = yyS,
                 !.yyn = yyn,
                 !.yystate = Goto(yyn, At(yyS, yyp).yys),
                 !.yyVAL = act.yyVAL,
                 !.lex = act.lex]

\* one step of Parse from p's label
Step(p, tok) ==
    CASE p.pc = "yystack" -> yystack(p)
      [] p.pc = "yynewstate" -> yynewstate(p, tok)
      [] p.pc = "yydefault" -> yydefault(p, tok)
      [] p.pc = "error" -> yyerror(p)
      [] p.pc = "reduce" -> yyreduce(p)
      [] OTHER -> p


(***************************************************************************)
(* Parse run to its end on a source whose tokens are all known: s is the   *)
(* sequence of tokens the scanner delivers before the end of the input.    *)
(***************************************************************************)
RECURSIVE Parse(_, _)
Parse(p, s) ==
    IF p.pc \in {"ret0", "ret1"} THEN p
    ELSE IF CallsLex(p)
    THEN IF s = <<>> THEN Parse(Step(p, EofTok(0)), s)
         ELSE Parse(Step(p, Head(s)), Tail(s))
    ELSE Parse(Step(p, EofTok(0)), s)

\* yyParse(lex) on a whole source
yyParse(s) == Parse(yyNewParser, s)


(***************************************************************************)
(* The host program: a VM made by New, then calls of Set, Get, Compile and *)
(* Eval, one at a time (section 5: no concurrency).  Compile runs Parse    *)
(* step by step.  The source text is known to the model as the tokens the  *)
(* scanner has delivered so far (src); what it has not scanned yet is      *)
(* chosen when the lexer is next called.                                   *)
(***************************************************************************)
VARIABLES
    input,      \* the class of sources this behaviour compiles
    hpc,        \* where the host is: "host", "Compile", "compiled", "returned"
    env,        \* VM.env
    written,    \* history: the value of the last Set of each name
    src,        \* the source of the Compile call, as far as it has been scanned
    parser,     \* the configuration of the running Parse
    compiled,   \* what Compile returned: [e, err]
    result      \* the last call of Get or Eval and what it returned

vars == <<input, hpc, env, written, src, parser, compiled, result>>

\* identifiers and literals of the sources
Names == {<<"a">>, <<"b">>}

Lits == {Int64V(1), Int64V(2)}

Punct == {44, 40, 41, 43, 45, 42, 47, 46, 91, 93}

\* a character the lexer does not know ('%')
Unknown == 37

AnyToks ==
    {Tok(IDENT, n, NilVal) : n \in Names} \cup {Tok(LIT, <<>>, l) : l \in Lits}
    \cup {Tok(c, <<>>, NilVal) : c \in Punct \cup {FOR, IN_, Unknown}}

ArithToks ==
    {Tok(LIT, <<>>, l) : l \in Lits}
    \cup {Tok(c, <<>>, NilVal) : c \in {40, 41, 43, 45, 42, 47}}

\* the codes Lex may return at the end of the input (yylex1: char <= 0)
EofChars == {0, -1}

\* whether the scanner has reached the end of the source
AtEof(s) == s # <<>> /\ s[Len(s)].char <= 0

\* the position of the first token `in` of s from position i on, 0 if none
RECURSIVE InPos(_, _)
InPos(s, i) == IF i > Len(s) THEN 0 ELSE IF s[i].char = IN_ THEN i ELSE InPos(s, i + 1)

\* the tokens the next call of Lex may deliver: any source of at most
\* MaxTokens tokens; an arithmetic source of at most MaxArithTokens tokens;
\* a source that starts with `for` and has at most MaxForTokens tokens
\* after its first `in`; or at most MaxDeepTokens tokens `(` and at most
\* MaxTailTokens tokens after them
NextToks(in, s) ==
    IF AtEof(s) THEN {s[Len(s)]}
    ELSE {EofTok(c) : c \in EofChars} \cup
         CASE in = "any" -> IF Len(s) < MaxTokens THEN AnyToks ELSE {}
           [] in = "arith" -> IF Len(s) < MaxArithTokens THEN ArithToks ELSE {}
           [] in = "for" ->
                IF Len(s) = 0 THEN {Tok(FOR, <<>>, NilVal)}
                ELSE IF InPos(s, 1) = 0 THEN (IF Len(s) < 5 THEN AnyToks ELSE {})
                ELSE IF Len(s) - InPos(s, 1) < MaxForTokens THEN AnyToks ELSE {}
           [] in = "deep" ->
                LET paren == Tok(40, <<>>, NilVal)
                    toks == {Tok(IDENT, <<"a">>, NilVal), paren, Tok(41, <<>>, NilVal)}
                    tail == {i \in 1..Len(s) : \E j \in 1..i : s[j] # paren}
                IN IF tail = {} THEN (IF Len(s) < MaxDeepTokens THEN toks ELSE toks \ {paren})
                   ELSE IF Cardinality(tail) < MaxTailTokens THEN toks ELSE {}
           [] OTHER -> {}

\* the text of a token, and of the source scanned so far
Text(tok) ==
    CASE tok.char = IDENT -> tok.str
      [] tok.char = LIT -> IF tok.lit.k = "string" THEN <<"\"">> \o tok.lit.s \o <<"\"">>
                           ELSE Sprint(tok.lit)
      [] tok.char = FOR -> <<"for">>
      [] tok.char = IN_ -> <<"in">>
      [] tok.char = 44 -> <<",">>
      [] tok.char = 40 -> <<"(">>
      [] tok.char = 41 -> <<")">>
      [] tok.char = 43 -> <<"+">>
      [] tok.char = 45 -> <<"-">>
      [] tok.char = 42 -> <<"*">>
      [] tok.char = 47 -> <<"/">>
      [] tok.char = 46 -> <<".">>
      [] tok.char = 91 -> <<"[">>
      [] tok.char = 93 -> <<"]">>
      [] tok.char = Unknown -> <<"%">>
      [] OTHER -> <<>>

RECURSIVE SourceText(_)
SourceText(s) ==
    IF s = <<>> THEN <<>>
    ELSE IF Len(s) = 1 THEN Text(s[1])
    ELSE Text(Head(s)) \o <<" ">> \o SourceText(Tail(s))

\* no call has returned yet
NoResult ==
    [op |-> "none", name |-> <<>>, expr |-> NilExpr,
     v |-> NilVal, ok |-> FALSE, err |-> NilVal, panic |-> FALSE, calls |-> <<>>]

InitInput(in) ==
    /\ input = in
    /\ hpc = "host"
    /\ env = New
    /\ written = New
    /\ src = <<>>
    /\ parser = yyNewParser
    /\ compiled = [e |-> NilExpr, err |-> NilVal]
    /\ result = NoResult

Init == InitInput("any")

\* the bindings the host makes before it compiles a source
SourceVals == {Int64V(2)}

\* a call of Set
SetCall(names, vals) ==
    /\ hpc = "host"
    /\ \E n \in names, vv \in vals :
          /\ env' = Set(env, n, vv)
          /\ written' = [m \in DOMAIN written \cup {n} |-> IF m = n THEN vv ELSE written[m]]
    /\ UNCHANGED <<input, hpc, src, parser, compiled, result>>

SetBinding == SetCall({<<"a">>}, SourceVals)

\* VM.Compile, lines 819-821: a new Lexer on s, and yyParse starts
CompileCall ==
    /\ hpc = "host"
    /\ hpc' = "Compile"
    /\ parser' = yyNewParser
    /\ src' = <<>>
    /\ UNCHANGED <<input, env, written, compiled, result>>

\* a step of Parse that calls the lexer
ParseLex ==
    /\ hpc = "Compile"
    /\ CallsLex(parser)
    /\ \E tok \in NextToks(input, src) :
          /\ parser' = Step(parser, tok)
          /\ src' = IF AtEof(src) THEN src ELSE Append(src, tok)
    /\ UNCHANGED <<input, hpc, env, written, compiled, result>>

\* a step of Parse that does not
ParseStep ==
    /\ hpc = "Compile"
    /\ parser.pc \notin {"ret0", "ret1"}
    /\ ~CallsLex(parser)
    /\ parser' = Step(parser, EofTok(0))
    /\ UNCHANGED <<input, hpc, env, written, src, compiled, result>>

\* a Compile that hands out the AST of the lexer along with the error
CompileKeepsExpr(ret, lex, s) ==
    IF ret # 0 THEN [e |-> lex.e, err |-> ErrorsNew("syntax error: ", s)]
    ELSE [e |-> lex.e, err |-> NilVal]

\* VM.Compile, lines 821-824; s is the text of the source
Compile(ret, lex, s) ==
    IF ret # 0 THEN [e |-> NilExpr, err |-> ErrorsNew("syntax error: ", s)]
    ELSE [e |-> lex.e, err |-> NilVal]

\* the tokens of a source before its end
Body(s) == IF AtEof(s) THEN SubSeq(s, 1, Len(s) - 1) ELSE s

\* VM.Compile of a whole source
CompileSource(s) ==
    LET p == yyParse(s)
    IN Compile(IF p.pc = "ret0" THEN 0 ELSE 1, p.lex, SourceText(s))

CompileReturn ==
    /\ hpc = "Compile"
    /\ parser.pc \in {"ret0", "ret1"}
    /\ compiled' = Compile(IF parser.pc = "ret0" THEN 0 ELSE 1, parser.lex,
                           SourceText(Body(src)))
    /\ hpc' = "compiled"
    /\ UNCHANGED <<input, env, written, src, parser, result>>

\* an Eval that evaluates the body of a loop
EvalReturnOfBody(expr) ==
    LET r == Eval(env, IF expr.type = "ForExpr" THEN expr.Body ELSE expr)
    IN /\ result' = [op |-> "Eval", name |-> <<>>, expr |-> expr,
                     v |-> r.v, ok |-> FALSE, err |-> r.err, panic |-> r.panic,
                     calls |-> r.calls]
       /\ hpc' = "returned"

\* a call of Eval and its return
EvalReturn(expr) ==
    LET r == Eval(env, expr)
    IN /\ result' = [op |-> "Eval", name |-> <<>>, expr |-> expr,
                     v |-> r.v, ok |-> FALSE, err |-> r.err, panic |-> r.panic,
                     calls |-> r.calls]
       /\ hpc' = "returned"

\* the host evaluates what Compile returned
EvalCompiled ==
    /\ hpc = "compiled"
    /\ compiled.err = NilVal
    /\ EvalReturn(compiled.e)
    /\ UNCHANGED <<input, env, written, src, parser, compiled>>

\* a call of Get and its return
GetCall(names) ==
    /\ hpc = "host"
    /\ \E n \in names :
          LET r == Get(env, n)
          IN result' = [op |-> "Get", name |-> n, expr |-> NilExpr,
                        v |-> r.val, ok |-> r.ok, err |-> NilVal, panic |-> FALSE,
                        calls |-> <<>>]
    /\ hpc' = "returned"
    /\ UNCHANGED <<input, env, written, src, parser, compiled>>

GetBinding == GetCall(Names)

Next ==
    \/ SetBinding
    \/ GetBinding
    \/ CompileCall
    \/ ParseLex
    \/ ParseStep
    \/ CompileReturn
    \/ EvalCompiled

Spec == Init /\ [][Next]_vars

SpecArith == InitInput("arith") /\ [][Next]_vars

SpecFor == InitInput("for") /\ [][Next]_vars

\* Parse is a sequential loop and every call of Lex returns: a step of
\* Parse that is possible is taken
SpecDeep ==
    InitInput("deep") /\ [][Next]_vars /\ WF_vars(ParseLex) /\ WF_vars(ParseStep)

(***************************************************************************)
(* The host at the VM alone: it binds host values, reads them back and     *)
(* evaluates ASTs it has built itself.                                     *)
(***************************************************************************)
MaxArgs == 1

\* the host binds x to scalars and f to callables and structs
VMNames == {<<"x">>, <<"f">>}

\* a name the host never binds
Unbound == <<"z">>

\* callables: their declared parameters and what they return
One == Func(<<"One">>, <<>>, <<Out(Type("int64"), Int64V(3))>>)

Fails ==
    Func(<<"Fails">>, <<AnyType>>,
         <<Out(Type("int64"), Int64V(3)), Out(Type("error"), ErrorVal(<<"boom">>))>>)

Succeeds ==
    Func(<<"Succeeds">>, <<AnyType>>,
         <<Out(Type("int64"), Int64V(3)), Out(Type("error"), NilVal)>>)

Found == Func(<<"Found">>, <<>>, <<Out(Type("int64"), Int64V(3)), Out(Type("bool"), BoolV(TRUE))>>)

Nothing == Func(<<"Nothing">>, <<>>, <<>>)

\* a struct with an exported and an unexported field, a method M on the
\* value and a method P on the pointer
Obj ==
    Struct("T",
           [n \in {<<"F">>, <<"u">>} |-> IF n = <<"F">> THEN Int64V(2) ELSE StringV(<<"a">>)],
           [n \in {<<"M">>} |-> Fails],
           [n \in {<<"P">>} |-> One])

Scalars ==
    {NilVal, Int64V(0), Int64V(2), Int32V(-7), Int64V(MinInt),
     StringV(<<"a">>), StringV(<<"2">>), Float64V(5, 2)}

Callables == {One, Fails, Succeeds, Found, Nothing}

Hosts == Callables \cup {Obj, Ptr(Obj)}

LitVals == {Int64V(0), Int64V(2), Int64V(-1), StringV(<<"a">>), Float64V(5, 2)}

Atoms == {IdentExpr(n) : n \in VMNames \cup {Unbound}} \cup {LitExpr(l) : l \in LitVals}

\* the argument lists of at most n atoms
RECURSIVE ArgLists(_)
ArgLists(n) ==
    IF n = 0 THEN {<<>>}
    ELSE ArgLists(n - 1) \cup {Append(a, e) : a \in {b \in ArgLists(n - 1) : Len(b) = n - 1},
                                             e \in Atoms}

MethodNames == {<<"M">>, <<"P">>, <<"N">>}

MemberNames == {<<"F">>, <<"u">>, <<"N">>}

\* the ASTs the host evaluates: an atom, or one node over atoms
Exprs ==
    Atoms
    \cup {BinOpExpr(op, l, r) : op \in {"+", "-", "*", "/", "%"}, l \in Atoms, r \in Atoms}
    \cup {CallExpr(n, a) : n \in VMNames \cup {Unbound}, a \in ArgLists(MaxArgs)}
    \cup {MethodCallExpr(l, n, a) : l \in Atoms, n \in MethodNames, a \in ArgLists(MaxArgs)}
    \cup {MemberExpr(l, n) : l \in Atoms, n \in MemberNames}
    \cup {ItemExpr(l, i) : l \in Atoms, i \in Atoms}
    \cup {ForExpr(<<"x">>, <<>>, IdentExpr(<<"x">>))}

SetScalar == SetCall({<<"x">>}, Scalars)

SetHost == SetCall({<<"f">>}, Hosts)

GetName == GetCall(VMNames \cup {Unbound})

Id(n) == Tok(IDENT, n, NilVal)

Ch(c) == Tok(c, <<>>, NilVal)

\* sources with postfix forms:  a . b . c,  a . b ( c ) [ d ],  and for
\* each operator  x op a . b,  x op a [ i ],  x op f ( y )  and  a . b op x
PostfixSources ==
    LET Member == <<Id(<<"a">>), Ch(46), Id(<<"b">>)>>
        Item == <<Id(<<"a">>), Ch(91), Id(<<"i">>), Ch(93)>>
        CallOfF == <<Id(<<"f">>), Ch(40), Id(<<"y">>), Ch(41)>>
    IN {Member \o <<Ch(46), Id(<<"c">>)>>,
        Member \o <<Ch(40), Id(<<"c">>), Ch(41), Ch(91), Id(<<"d">>), Ch(93)>>}
       \cup {<<Id(<<"x">>), Ch(op)>> \o p : op \in {43, 45, 42, 47},
                                           p \in {Member, Item, CallOfF}}
       \cup {Member \o <<Ch(op), Id(<<"x">>)>> : op \in {43, 45, 42, 47}}

\* the sources the host compiles:  x,  f ( x ),  x . F + 2,  x ),  the
\* empty one and those with postfix forms
Sources ==
    {<<Id(<<"x">>)>>,
     <<Id(<<"f">>), Ch(40), Id(<<"x">>), Ch(41)>>,
     <<Id(<<"x">>), Ch(46), Id(<<"F">>), Ch(43), Tok(LIT, <<>>, Int64V(2))>>,
     <<Id(<<"x">>), Ch(41)>>,
     <<>>}
    \cup PostfixSources

\* a call of Compile and its return
CompileText ==
    /\ hpc = "host"
    /\ \E s \in Sources :
          /\ compiled' = CompileSource(s)
          /\ src' = s
    /\ result' = [NoResult EXCEPT !.op = "Compile"]
    /\ hpc' = "returned"
    /\ UNCHANGED <<input, env, written, parser>>

\* an Eval that empties the environment
EvalExprClearsEnv ==
    /\ hpc = "host"
    /\ \E e \in Exprs : EvalReturn(e)
    /\ env' = New
    /\ UNCHANGED <<input, written, src, parser, compiled>>

EvalExpr ==
    /\ hpc = "host"
    /\ \E e \in Exprs : EvalReturn(e)
    /\ UNCHANGED <<input, env, written, src, parser, compiled>>

\* the host takes the result and goes on
Resume ==
    /\ hpc = "returned"
    /\ hpc' = "host"
    /\ result' = NoResult
    /\ src' = <<>>
    /\ compiled' = [e |-> NilExpr, err |-> NilVal]
    /\ UNCHANGED <<input, env, written, parser>>

NextVM ==
    \/ SetScalar
    \/ SetHost
    \/ GetName
    \/ CompileText
    \/ EvalExpr
    \/ Resume

SpecVM == InitInput("vm") /\ [][NextVM]_vars


(***************************************************************************)
(* The grammar of section 4.2 of the specification, as the sets of token   *)
(* sequences it derives.  Level(n, g) is the sentences of exactly n tokens *)
(* of expr (e) and of exprList (l), given those of fewer tokens in g.      *)
(***************************************************************************)
BinOps == {43, 45, 42, 47}

Level(n, g) ==
    LET E(i) == g[i + 1].e
        L(i) == g[i + 1].l
        e == IF n = 0 THEN {}
             ELSE IF n = 1 THEN {<<IDENT>>, <<LIT>>}
             ELSE UNION {{a \o <<op>> \o b : a \in E(i), b \in E(n - 1 - i), op \in BinOps}
                         : i \in 1..(n - 2)}
                  \cup (IF n >= 3 THEN {<<40>> \o a \o <<41>> : a \in E(n - 2)} ELSE {})
                  \cup (IF n >= 3 THEN {<<IDENT, 40>> \o a \o <<41>> : a \in L(n - 3)} ELSE {})
                  \cup UNION {{a \o <<46, IDENT, 40>> \o b \o <<41>> : a \in E(i), b \in L(n - 4 - i)}
                              : i \in 1..(n - 4)}
                  \cup (IF n >= 3 THEN {a \o <<46, IDENT>> : a \in E(n - 2)} ELSE {})
                  \cup UNION {{a \o <<91>> \o b \o <<93>> : a \in E(i), b \in E(n - 2 - i)}
                              : i \in 1..(n - 3)}
        l == IF n = 0 THEN {<<>>}
             ELSE e \cup UNION {{a \o <<44>> \o b : a \in L(i), b \in E(n - 1 - i)}
                                : i \in 0..(n - 2)}
    IN [e |-> e, l |-> l]

RECURSIVE Grammar(_, _)
Grammar(n, g) == IF Len(g) > n THEN g ELSE Grammar(n, Append(g, Level(Len(g), g)))

\* the sentences of `program` of at most n tokens
Programs(n) ==
    LET g == Grammar(n, <<>>)
        E(i) == IF i < 0 THEN {} ELSE g[i + 1].e
    IN UNION {E(i) \cup {<<FOR, IDENT, IN_>> \o a : a \in E(i - 3)}
                   \cup {<<FOR, IDENT, 44, IDENT, IN_>> \o a : a \in E(i - 5)}
              : i \in 0..n}

\* every sentence of `program` that a source of the model can be
AllPrograms == Programs(MaxTokens)

\* the token codes of a source
Codes(s) == [i \in 1..Len(s) |-> s[i].char]

IsPrefix(a, b) == Len(a) <= Len(b) /\ SubSeq(b, 1, Len(a)) = a


(***************************************************************************)
(* Precedence and associativity of the binary operators.                   *)
(***************************************************************************)
IsAtom(tok) == tok.char \in {IDENT, LIT}

\* the AST of an identifier or of a literal alone
AtomExpr(tok) == IF tok.char = IDENT THEN [type |-> "IdentExpr", Name |-> tok.str]
                 ELSE [type |-> "LitExpr", Value |-> tok.lit]

OpText(c) == CASE c = 43 -> "+" [] c = 45 -> "-" [] c = 42 -> "*" [] c = 47 -> "/"
               [] OTHER -> "?"

Node(c, l, r) == [type |-> "BinOpExpr", Op |-> OpText(c), LHS |-> l, RHS |-> r]

\* whether s is  a op1 b op2 c
IsChain(s) ==
    /\ Len(s) = 5
    /\ IsAtom(s[1]) /\ IsAtom(s[3]) /\ IsAtom(s[5])
    /\ s[2].char \in BinOps /\ s[4].char \in BinOps

\* the AST of  a op1 b op2 c  under the standard precedence
StandardAST(s) ==
    IF s[2].char \in {43, 45} /\ s[4].char \in {42, 47}
    THEN Node(s[2].char, AtomExpr(s[1]), Node(s[4].char, AtomExpr(s[3]), AtomExpr(s[5])))
    ELSE Node(s[4].char, Node(s[2].char, AtomExpr(s[1]), AtomExpr(s[3])), AtomExpr(s[5]))

\* the AST that nests to the right whatever the operators
RightNestedAST(s) ==
    Node(s[2].char, AtomExpr(s[1]), Node(s[4].char, AtomExpr(s[3]), AtomExpr(s[5])))

ChainCompiled == hpc = "compiled" /\ AtEof(src) /\ IsChain(Body(src))

\* C1: a source  a op1 b op2 c  over identifiers, literals and + - * /
\* compiles to the AST of the standard precedence: (a op1 b) op2 c, except
\* that an additive op1 before a multiplicative op2 gives a op1 (b op2 c).
C1_StandardPrecedence ==
    ChainCompiled => compiled = [e |-> StandardAST(Body(src)), err |-> NilVal]

\* what Compile does return for  a op1 b op2 c : always a op1 (b op2 c)
C1_RightNested ==
    ChainCompiled => compiled = [e |-> RightNestedAST(Body(src)), err |-> NilVal]

\* a - b - c  has been compiled, and not to (a - b) - c
C1_SubtractionChain ==
    /\ ChainCompiled
    /\ Body(src)[2].char = 45 /\ Body(src)[4].char = 45
    /\ compiled.err = NilVal
    /\ compiled.e # StandardAST(Body(src))

(***************************************************************************)
(* Standard integer arithmetic on a source of literals, + - * / and        *)
(* parentheses: a value v, or undefined (def = FALSE) on a division by 0.  *)
(***************************************************************************)
NoParse == [ok |-> FALSE, def |-> FALSE, v |-> 0, i |-> 0]

TruncDiv(a, b) ==
    LET q == (IF a < 0 THEN -a ELSE a) \div (IF b < 0 THEN -b ELSE b)
    IN IF (a < 0) = (b < 0) THEN q ELSE -q

Arith(c, x, y) ==
    CASE c = 43 -> [def |-> TRUE, v |-> x + y]
      [] c = 45 -> [def |-> TRUE, v |-> x - y]
      [] c = 42 -> [def |-> TRUE, v |-> x * y]
      [] OTHER -> IF y = 0 THEN [def |-> FALSE, v |-> 0]
                  ELSE [def |-> TRUE, v |-> TruncDiv(x, y)]

RECURSIVE Sum(_, _), SumRest(_, _), Term(_, _), TermRest(_, _), Factor(_, _)
Factor(s, i) ==
    IF i > Len(s) THEN NoParse
    ELSE IF s[i].char = LIT /\ s[i].lit.k = "int64"
    THEN [ok |-> TRUE, def |-> TRUE, v |-> s[i].lit.n, i |-> i + 1]
    ELSE IF s[i].char = 40
    THEN LET r == Sum(s, i + 1)
         IN IF r.ok /\ r.i <= Len(s) /\ s[r.i].char = 41 THEN [r EXCEPT !.i = r.i + 1]
            ELSE NoParse
    ELSE NoParse

TermRest(s, l) ==
    IF l.ok /\ l.i <= Len(s) /\ s[l.i].char \in {42, 47}
    THEN LET r == Factor(s, l.i + 1)
             x == Arith(s[l.i].char, l.v, r.v)
         IN IF ~r.ok THEN NoParse
            ELSE TermRest(s, [ok |-> TRUE, def |-> l.def /\ r.def /\ x.def, v |-> x.v, i |-> r.i])
    ELSE l

Term(s, i) == TermRest(s, Factor(s, i))

SumRest(s, l) ==
    IF l.ok /\ l.i <= Len(s) /\ s[l.i].char \in {43, 45}
    THEN LET r == Term(s, l.i + 1)
             x == Arith(s[l.i].char, l.v, r.v)
         IN IF ~r.ok THEN NoParse
            ELSE SumRest(s, [ok |-> TRUE, def |-> l.def /\ r.def /\ x.def, v |-> x.v, i |-> r.i])
    ELSE l

Sum(s, i) == SumRest(s, Term(s, i))

\* the standard value of a whole source
Standard(s) == LET r == Sum(s, 1) IN IF r.ok /\ r.i = Len(s) + 1 THEN r ELSE NoParse

ArithEvaluated ==
    /\ hpc = "returned" /\ result.op = "Eval" /\ AtEof(src)
    /\ Standard(Body(src)).ok /\ Standard(Body(src)).def

\* C2: evaluating the AST of an arithmetic expression over integer literals
\* gives the value standard arithmetic gives it.
C2_StandardArithmetic ==
    ArithEvaluated =>
        /\ ~result.panic
        /\ result.err = NilVal
        /\ result.v = Int64V(Standard(Body(src)).v)

\* 2 - 1 - 1  has been evaluated, and not to 0
C2_SubtractionChain ==
    /\ ArithEvaluated
    /\ IsChain(Body(src))
    /\ Body(src)[2].char = 45 /\ Body(src)[4].char = 45
    /\ result.v # Int64V(Standard(Body(src)).v)


(***************************************************************************)
(* What Parse accepts.                                                     *)
(***************************************************************************)
ParseReturned == hpc = "compiled"

Accepted == ParseReturned /\ parser.pc = "ret0"

Rejected == ParseReturned /\ parser.pc = "ret1"

\* C3: Parse returns 0 exactly when the tokens of the source are a sentence
\* of `program` in the grammar of section 4.2.  A source is accepted only
\* at its end and only if it is a sentence (so never the empty source, and
\* never one with `for` after its first token); a source is rejected only
\* if the tokens scanned up to the rejection begin no sentence, and at its
\* end only if it is not a sentence.
C3_AcceptsTheGrammar ==
    LET w == Codes(Body(src))
    IN /\ Accepted =>
            /\ AtEof(src)
            /\ w \in AllPrograms
            /\ \A i \in 2..Len(w) : w[i] # FOR
       /\ Rejected =>
            IF AtEof(src) THEN w \notin AllPrograms
            ELSE \A q \in AllPrograms : ~IsPrefix(w, q)

\* a `for` program has been accepted
C3_ForAccepted == Accepted /\ Len(src) > 1 /\ src[1].char = FOR

\* a sentence followed by one more token has been rejected
C3_ExtensionRejected ==
    /\ Rejected
    /\ Len(Body(src)) > 1
    /\ Codes(SubSeq(src, 1, Len(Body(src)) - 1)) \in AllPrograms

(***************************************************************************)
(* The AST of a `for` program.                                             *)
(***************************************************************************)
\* the source after the first `in`
AfterIn(s) == SubSeq(s, InPos(s, 1) + 1, Len(s))

\* whether s alone compiles to an expression
IsExprSource(s) ==
    LET c == CompileSource(s) IN c.err = NilVal /\ c.e.type # "ForExpr"

ForCompiled(n) ==
    /\ hpc = "compiled" /\ AtEof(src)
    /\ InPos(src, 1) = n
    /\ src[1].char = FOR
    /\ \A i \in 2..(n - 1) : src[i].char = (IF i = 3 THEN 44 ELSE IDENT)
    /\ IsExprSource(AfterIn(Body(src)))

\* C4: `for x in E` compiles to ForExpr{Var1: x, Var2: "", Body: e} and
\* `for i, x in E` to ForExpr{Var1: i, Var2: x, Body: e}, where e is the
\* AST that compiling E alone gives.
C4_ForExpr ==
    LET e == CompileSource(AfterIn(Body(src))).e
    IN /\ ForCompiled(3) =>
            compiled = [e |-> [type |-> "ForExpr", Var1 |-> src[2].str, Var2 |-> <<>>,
                               Body |-> e],
                        err |-> NilVal]
       /\ ForCompiled(5) =>
            compiled = [e |-> [type |-> "ForExpr", Var1 |-> src[2].str, Var2 |-> src[4].str,
                               Body |-> e],
                        err |-> NilVal]

\* `for a, b in E` has been compiled, E a source of more than one token
C4_TwoVariables ==
    /\ ForCompiled(5)
    /\ src[2].str # src[4].str
    /\ Len(AfterIn(Body(src))) > 1
    /\ compiled.e.type = "ForExpr"

(***************************************************************************)
(* What Compile returns.                                                   *)
(***************************************************************************)
\* whether the text a occurs at the end of the text b
EndsWith(b, a) == Len(a) <= Len(b) /\ SubSeq(b, Len(b) - Len(a) + 1, Len(b)) = a

\* C5: Compile returns either a non-nil Expr and a nil error (Parse
\* returned 0) or a nil Expr and a non-nil error whose message contains the
\* source (Parse returned non-zero), also when the parser had already
\* stored an AST in the lexer before it failed.
C5_ExprOrError ==
    ParseReturned =>
        /\ parser.pc = "ret0" => compiled.e # NilExpr /\ compiled.err = NilVal
        /\ parser.pc # "ret0" =>
              /\ compiled.e = NilExpr
              /\ compiled.err.k = "error"
              /\ EndsWith(compiled.err.s, SourceText(Body(src)))

\* a source like `a )` has been rejected after its AST was stored
C5_RejectedAfterStore == Rejected /\ parser.lex.e # NilExpr /\ compiled.err # NilVal


(***************************************************************************)
(* The environment.                                                        *)
(***************************************************************************)
Returned(op) == hpc = "returned" /\ result.op = op

\* C6: after any sequence of Set calls on a new VM, Get(n) and
\* Eval(IdentExpr{n}) give the value of the last Set(n, _): (v, true) and
\* (v, nil); for a name never set, (nil, false) and a non-nil error.  The
\* environment is always exactly the last writes: no binding disappears
\* and Set(n, _) changes the binding of n alone.
C6_LastWrite ==
    /\ env = written
    /\ Returned("Get") =>
          IF result.name \in DOMAIN written
          THEN result.v = written[result.name] /\ result.ok
          ELSE result.v = NilVal /\ ~result.ok
    /\ (Returned("Eval") /\ result.expr.type = "IdentExpr") =>
          /\ ~result.panic
          /\ IF result.expr.Name \in DOMAIN written
             THEN result.v = written[result.expr.Name] /\ result.err = NilVal
             ELSE result.err.k = "error"

\* with both names bound, one of them is read back
C6_ReadBack ==
    /\ DOMAIN env = VMNames
    /\ Returned("Get") /\ result.name = <<"x">> /\ result.ok /\ result.v # NilVal

\* an unbound name has been evaluated
C6_UnboundEvaluated ==
    /\ Returned("Eval") /\ result.expr = IdentExpr(Unbound) /\ result.err # NilVal

\* C7: Compile, Get and Eval leave the environment unchanged, whether they
\* succeed or fail.
C7_EnvUnchanged ==
    [][result'.op \in {"Compile", "Get", "Eval"} => env' = env]_vars

\* with bindings made, a Compile has failed
C7_CompileFailed == Returned("Compile") /\ compiled.err # NilVal /\ DOMAIN env = VMNames

\* with bindings made, an Eval has called a host callable
C7_EvalCalled == Returned("Eval") /\ result.calls # <<>> /\ DOMAIN env = VMNames

(***************************************************************************)
(* Binary operators on operands that are a literal or a bound name.        *)
(***************************************************************************)
Evaluates(e) ==
    \/ e.type = "LitExpr"
    \/ e.type = "IdentExpr" /\ e.Name \in DOMAIN env

OperandValue(e) == IF e.type = "LitExpr" THEN e.Value ELSE env[e.Name]

BinOpReturned(op) ==
    /\ Returned("Eval")
    /\ result.expr.type = "BinOpExpr" /\ result.expr.Op = op
    /\ Evaluates(result.expr.LHS) /\ Evaluates(result.expr.RHS)

Left == OperandValue(result.expr.LHS)

Right == OperandValue(result.expr.RHS)

IntKinds == {"int", "int32", "int64"}

\* C8: when the left operand is a string, + returns the left string
\* followed by the text of the right operand, whatever its type, and each
\* of - * / returns a non-nil error and no value.
C8_StringLeft ==
    \A op \in {"+", "-", "*", "/"} :
        (BinOpReturned(op) /\ Left.k = "string") =>
            /\ ~result.panic
            /\ IF op = "+"
               THEN result.v = StringV(Left.s \o Sprint(Right)) /\ result.err = NilVal
               ELSE result.v = NilVal /\ result.err.k = "error"

\* "a" + 2 has given "a2"
C8_StringPlusInteger ==
    /\ BinOpReturned("+")
    /\ Left = StringV(<<"a">>) /\ Right = Int64V(2)
    /\ result.v = StringV(<<"a", "2">>)

IntegerDivision == BinOpReturned("/") /\ Left.k \in IntKinds /\ Right.k \in IntKinds

\* C9 as stated: an integer divided by the integer 0 ends Eval in a fatal
\* runtime error, with no (value, error) returned; divided by any other
\* integer it gives the quotient truncated toward zero.
C9_TruncatedQuotient ==
    IntegerDivision =>
        IF Right.n = 0 THEN result.panic
        ELSE /\ ~result.panic
             /\ result.err = NilVal
             /\ result.v = Int64V(TruncDiv(Left.n, Right.n))

\* C9, amended: as stated, except that the least integer divided by -1
\* gives the least integer (the quotient does not fit and wraps).
C9_WrappedQuotient ==
    IntegerDivision =>
        IF Right.n = 0 THEN result.panic /\ result.v = NilVal /\ result.err = NilVal
        ELSE /\ ~result.panic
             /\ result.err = NilVal
             /\ result.v = Int64V(IF Left.n = MinInt /\ Right.n = -1 THEN MinInt
                                  ELSE TruncDiv(Left.n, Right.n))

\* an integer has been divided by the integer 0
C9_DivisionByZero == IntegerDivision /\ Right.n = 0 /\ result.panic

\* -7 / 2 has given -3
C9_NegativeQuotient ==
    IntegerDivision /\ Left.n = -7 /\ Right.n = 2 /\ result.v = Int64V(-3)

\* the least integer has been divided by -1
C9_Overflow == IntegerDivision /\ Left.n = MinInt /\ Right.n = -1 /\ ~result.panic

(***************************************************************************)
(* What Eval makes of the values a callable returns.                       *)
(***************************************************************************)
\* a CallExpr or MethodCallExpr has invoked a callable, which returned
CallReturned ==
    /\ Returned("Eval")
    /\ result.expr.type \in {"CallExpr", "MethodCallExpr"}
    /\ ~result.panic
    /\ Len(result.calls) = 1

Invoked == CHOOSE c \in Callables : c.name = result.calls[1].name

\* C10: when the callable returns one value, Eval returns (that value,
\* nil); when it returns two values and the second is a non-nil error,
\* Eval returns (the first value, that error); when the second is a nil
\* error, Eval returns (the first value, nil).
C10_ReturnValues ==
    CallReturned =>
        LET out == Invoked.out
        IN /\ Len(out) = 1 => result.v = out[1].v /\ result.err = NilVal
           /\ (Len(out) = 2 /\ out[2].type = Type("error") /\ out[2].v # NilVal) =>
                 result.v = out[1].v /\ result.err = out[2].v
           /\ (Len(out) = 2 /\ out[2].type = Type("error") /\ out[2].v = NilVal) =>
                 result.v = out[1].v /\ result.err = NilVal

\* a method has returned a value and an error, and Eval both
C10_ValueWithError ==
    /\ CallReturned
    /\ result.expr.type = "MethodCallExpr"
    /\ result.v = Int64V(3) /\ result.err = ErrorVal(<<"boom">>)

\* a function has returned a value and a nil error
C10_NilError ==
    /\ CallReturned
    /\ result.expr.type = "CallExpr"
    /\ Invoked = Succeeds /\ result.v = Int64V(3) /\ result.err = NilVal


(***************************************************************************)
(* Calls of names that are unbound or bound to a value that is no func.    *)
(***************************************************************************)
CallOf(n) == Returned("Eval") /\ result.expr.type = "CallExpr" /\ result.expr.Name = n

\* C11: Eval of a CallExpr returns a non-nil error, and does not end in a
\* fatal runtime error, when its name is unbound and also when its name is
\* bound to a value that is not callable.
C11_CallFailsWithError ==
    \A n \in VMNames \cup {Unbound} :
        (CallOf(n) /\ (n \notin DOMAIN env \/ env[n].k # "func")) =>
            ~result.panic /\ result.err.k = "error"

\* what the code does: an error for an unbound name; for a value that is
\* no func, a panic once the arguments are evaluated
C11_CallOfNonFunc ==
    \A n \in VMNames \cup {Unbound} :
        /\ (CallOf(n) /\ n \notin DOMAIN env) =>
              ~result.panic /\ result.v = NilVal /\ result.err.k = "error"
        /\ (CallOf(n) /\ n \in DOMAIN env /\ env[n].k # "func"
               /\ \A i \in 1..Len(result.expr.Exprs) : Evaluates(result.expr.Exprs[i])) =>
              result.panic

\* x, bound to the integer 2, has been called without arguments
C11_IntegerCalled ==
    /\ CallOf(<<"x">>) /\ result.expr.Exprs = <<>>
    /\ <<"x">> \in DOMAIN env /\ env[<<"x">>] = Int64V(2)
    /\ result.panic

(***************************************************************************)
(* The host at member and item access: f is bound to a struct, a map or a  *)
(* slice, bare or behind pointers and interfaces, and x to an index.       *)
(***************************************************************************)
MaxLayers == 2

\* a slice of two elements and a map with the one key "F"
Pair == Slice(<<Int64V(7), StringV(<<"a">>)>>)

Dict == Map(Type("string"), [n \in {<<"F">>} |-> Int64V(2)])

Cores == {Obj, Dict, Pair}

\* v behind at most n pointers and interfaces
RECURSIVE Layers(_, _)
Layers(S, n) ==
    IF n = 0 THEN S
    ELSE Layers(S, n - 1) \cup {Ptr(v) : v \in Layers(S, n - 1)}
                          \cup {Iface(v) : v \in Layers(S, n - 1)}

\* what the host binds to f: a core, or a pointer to a chain of at most
\* MaxLayers layers that ends in a core, a nil pointer or a nil interface
\* (reflect.ValueOf never gives an interface at the top)
Receivers == Cores \cup {Ptr(v) : v \in Layers(Cores \cup {Invalid}, MaxLayers - 1)}

Indexes ==
    {NilVal, Int64V(-1), Int64V(0), Int64V(1), Int64V(2), IntV(0),
     StringV(<<"F">>), StringV(<<"u">>), StringV(<<"N">>)}

AccessExprs ==
    {ItemExpr(l, i) : l \in {IdentExpr(<<"f">>), IdentExpr(<<"x">>), IdentExpr(Unbound)},
                      i \in {IdentExpr(<<"x">>), IdentExpr(Unbound), LitExpr(Int64V(1)),
                             LitExpr(StringV(<<"F">>))}}
    \cup {MemberExpr(l, n) : l \in {IdentExpr(<<"f">>), IdentExpr(<<"x">>)}, n \in MemberNames}

SetIndex == SetCall({<<"x">>}, Indexes)

SetReceiver == SetCall({<<"f">>}, Receivers)

EvalAccess ==
    /\ hpc = "host"
    /\ \E e \in AccessExprs : EvalReturn(e)
    /\ UNCHANGED <<input, env, written, src, parser, compiled>>

NextAccess ==
    \/ SetIndex
    \/ SetReceiver
    \/ EvalAccess
    \/ Resume

SpecAccess == InitInput("access") /\ [][NextAccess]_vars

\* the value behind the pointers and interfaces of v
RECURSIVE Core(_)
Core(v) == IF v.k \in {"ptr", "iface"} THEN Core(v.elem) ELSE v

ItemReturned ==
    /\ Returned("Eval") /\ result.expr.type = "ItemExpr"
    /\ Evaluates(result.expr.LHS) /\ Evaluates(result.expr.Index)

Receiver == Core(OperandValue(result.expr.LHS))

Index == OperandValue(result.expr.Index)

ReturnsError == ~result.panic /\ result.v = NilVal /\ result.err.k = "error"

\* C12: an item of a sequence at an int64 index i is the element at i when
\* 0 <= i < length and a non-nil error, not a fatal runtime error, when i
\* is out of range; a sequence with another index, a scalar receiver, a
\* missing map key and a missing struct field give a non-nil error too.
C12_ItemOrError ==
    ItemReturned =>
        CASE Receiver.k = "slice" /\ Index.k = "int64" ->
               IF 0 <= Index.n /\ Index.n < Len(Receiver.elems)
               THEN ~result.panic /\ result.v = Receiver.elems[Index.n + 1]
                    /\ result.err = NilVal
               ELSE ReturnsError
          [] Receiver.k = "slice" /\ Index.k # "int64" -> ReturnsError
          [] Receiver.k = "map" /\ Sprint(Index) \notin DOMAIN Receiver.m -> ReturnsError
          [] Receiver.k = "struct" /\ Sprint(Index) \notin DOMAIN Receiver.fields -> ReturnsError
          [] Receiver.k \notin {"slice", "map", "struct"} -> ReturnsError
          [] OTHER -> TRUE

\* what the code does: as stated, except that an int64 index out of range
\* and a nil index of a sequence end in a panic
C12_ItemOrPanic ==
    ItemReturned =>
        CASE Receiver.k = "slice" /\ Index.k = "int64" ->
               IF 0 <= Index.n /\ Index.n < Len(Receiver.elems)
               THEN ~result.panic /\ result.v = Receiver.elems[Index.n + 1]
                    /\ result.err = NilVal
               ELSE result.panic
          [] Receiver.k = "slice" /\ Index.k = "nil" -> result.panic
          [] Receiver.k = "slice" /\ Index.k \notin {"int64", "nil"} -> ReturnsError
          [] Receiver.k = "map" /\ Sprint(Index) \notin DOMAIN Receiver.m -> ReturnsError
          [] Receiver.k = "struct" /\ Sprint(Index) \notin DOMAIN Receiver.fields -> ReturnsError
          [] Receiver.k \notin {"slice", "map", "struct"} -> ReturnsError
          [] OTHER -> TRUE

\* the item 2 of a slice of two elements has been asked for
C12_OutOfRange ==
    /\ ItemReturned
    /\ Receiver = Pair /\ Index = Int64V(2)
    /\ result.panic

\* the item 1 of a slice has been returned
C12_InRange == ItemReturned /\ Receiver = Pair /\ Index = Int64V(1) /\ result.v = StringV(<<"a">>)

(***************************************************************************)
(* Member access through pointers and interfaces.                          *)
(***************************************************************************)
MemberOfReceiver ==
    /\ Returned("Eval") /\ result.expr.type = "MemberExpr"
    /\ result.expr.LHS = IdentExpr(<<"f">>)
    /\ <<"f">> \in DOMAIN env

\* C13: the member F of a struct or string-keyed map s is the same, value
\* and error, whether the receiver is s, a pointer to s, an interface
\* holding s or a chain of such layers around s; a chain that ends in a
\* nil pointer or a nil interface gives a non-nil error and no value.
C13_WrappingIndependent ==
    MemberOfReceiver =>
        LET s == Core(env[<<"f">>])
            bare == Eval(Set(env, <<"f">>, s), result.expr)
        IN IF s = Invalid THEN ReturnsError
           ELSE /\ result.v = bare.v
                /\ result.err = bare.err
                /\ result.panic = bare.panic

\* the field F has been read through a pointer to an interface
C13_ThroughTwoLayers ==
    /\ MemberOfReceiver
    /\ env[<<"f">>] = Ptr(Iface(Obj))
    /\ result.expr.Name = <<"F">>
    /\ result.v = Int64V(2) /\ result.err = NilVal

\* a member has been asked of a pointer to a nil interface
C13_NilAtTheEnd ==
    /\ MemberOfReceiver
    /\ env[<<"f">>] = Ptr(Iface(Invalid))
    /\ result.err = ErrorVal(<<"cannot reference value">>)

(***************************************************************************)
(* Method resolution.                                                      *)
(***************************************************************************)
MethodCallOfReceiver ==
    /\ Returned("Eval") /\ result.expr.type = "MethodCallExpr"
    /\ result.expr.LHS = IdentExpr(<<"f">>)
    /\ <<"f">> \in DOMAIN env

\* whether the arguments of the call evaluate to n values that are not nil
ArgumentsFit(n) ==
    /\ Len(result.expr.Exprs) = n
    /\ \A i \in 1..n :
          /\ Evaluates(result.expr.Exprs[i])
          /\ Core(OperandValue(result.expr.Exprs[i])).k \notin {"nil", "invalid"}

InvokedOnce(meth) ==
    /\ ~result.panic
    /\ Len(result.calls) = 1
    /\ result.calls[1].name = meth.name
    /\ result.v = meth.out[1].v

\* C14: on the receiver's concrete value, a method of the value type is
\* invoked; a method of the pointer type only is resolved on a pointer to a
\* copy and invoked; when neither has the method Eval returns a non-nil
\* 'method not found' error and evaluates no argument.
C14_MethodResolution ==
    MethodCallOfReceiver =>
        LET s == Core(env[<<"f">>])
            m == result.expr.Name
        IN CASE s.k = "struct" /\ m \in DOMAIN s.vm ->
                  ArgumentsFit(Len(s.vm[m].in)) => InvokedOnce(s.vm[m])
             [] s.k = "struct" /\ m \notin DOMAIN s.vm /\ m \in DOMAIN s.pm ->
                  ArgumentsFit(Len(s.pm[m].in)) => InvokedOnce(s.pm[m]) /\ result.err = NilVal
             [] OTHER ->
                  /\ ReturnsError
                  /\ result.err = ErrorVal(<<"cannot reference method: ">> \o m)
                  /\ result.calls = <<>>

\* a method of the pointer type has been invoked on a struct value
C14_PointerMethod ==
    /\ MethodCallOfReceiver
    /\ env[<<"f">>] = Obj
    /\ result.expr.Name = <<"P">>
    /\ InvokedOnce(One)

\* a method that does not exist has been called with an unbound argument
C14_NotFoundBeforeArguments ==
    /\ MethodCallOfReceiver
    /\ env[<<"f">>] = Obj
    /\ result.expr.Name = <<"N">>
    /\ result.expr.Exprs = <<IdentExpr(Unbound)>>
    /\ result.err = ErrorVal(<<"cannot reference method: ", "N">>)

(***************************************************************************)
(* Error reporting of Parse.                                               *)
(***************************************************************************)
Errors == Len(parser.lex.errs)

\* C15: the lexer's Error is called at most once in a run of Parse; the
\* step that calls it ends the run with 1, so that no token is requested
\* and nothing is shifted or reduced after it and Parse is never at a label
\* with a positive Errflag; Parse returns 1 only after exactly one call of
\* Error and 0 only after none.
C15_OneErrorEndsParse ==
    /\ [](/\ Errors <= 1
          /\ Errors = 1 => parser.pc = "ret1"
          /\ parser.pc = "ret1" => Errors = 1 /\ parser.Nerrs = 1
          /\ parser.pc = "ret0" => Errors = 0 /\ parser.Nerrs = 0
          /\ parser.pc \notin {"ret0", "ret1"} => parser.Errflag = 0)
    /\ [][Errors = 1 => parser' = parser /\ src' = src]_vars

\* Error has been called after two tokens were shifted
C15_ErrorAfterShifts ==
    /\ hpc = "Compile"
    /\ parser.pc = "ret1"
    /\ Errors = 1
    /\ Len(src) = 3
    /\ parser.yyp = -1


(***************************************************************************)
(* The host at nested expressions: it binds x and f to functions and       *)
(* evaluates operations and calls whose operands and arguments are calls   *)
(* themselves, so that the log of host calls shows the order of            *)
(* evaluation.                                                             *)
(***************************************************************************)
MaxNested == 2

\* the functions the host binds: of one parameter, with and without an
\* error, and of two parameters
Callees ==
    {Succeeds, Fails,
     Func(<<"Both">>, <<AnyType, AnyType>>, <<Out(Type("int64"), Int64V(3))>>)}

\* f(0), x(2), ..., the unbound z and the literal 2; one operation or one
\* call over them
NestedExprs ==
    LET Operands ==
            {CallExpr(n, <<LitExpr(v)>>) : n \in VMNames \cup {Unbound},
                                           v \in {Int64V(0), Int64V(2)}}
            \cup {IdentExpr(Unbound), LitExpr(Int64V(2))}
    IN {BinOpExpr(op, l, r) : op \in {"+", "/"}, l \in Operands, r \in Operands}
       \cup {CallExpr(n, a) : n \in VMNames \cup {Unbound},
                              a \in UNION {[1..k -> Operands] : k \in 0..MaxNested}}

EvalNested ==
    /\ hpc = "host"
    /\ \E e \in NestedExprs : EvalReturn(e)
    /\ UNCHANGED <<input, env, written, src, parser, compiled>>

NextNested ==
    \/ SetCall(VMNames, Callees)
    \/ EvalNested
    \/ Resume

SpecNested == InitInput("nested") /\ [][NextNested]_vars

(***************************************************************************)
(* Order of evaluation of a binary operation.                              *)
(***************************************************************************)
BinOpOfOperands == Returned("Eval") /\ result.expr.type = "BinOpExpr"

\* C16: the left operand is evaluated completely before the right one, so
\* the host calls of the left precede those of the right; when the left
\* operand returns an error the right one is not evaluated and the result
\* is (nil, that error); when the right one returns an error the result is
\* (nil, its error).
C16_LeftBeforeRight ==
    BinOpOfOperands =>
        LET l == Eval(env, result.expr.LHS)
            r == Eval(env, result.expr.RHS)
        IN CASE l.panic -> result.panic /\ result.calls = l.calls
             [] ~l.panic /\ l.err # NilVal ->
                  ReturnsError /\ result.err = l.err /\ result.calls = l.calls
             [] ~l.panic /\ l.err = NilVal /\ r.panic -> result.panic
             [] ~l.panic /\ l.err = NilVal /\ ~r.panic /\ r.err # NilVal ->
                  ReturnsError /\ result.err = r.err /\ result.calls = l.calls \o r.calls
             [] OTHER -> result.calls = l.calls \o r.calls

Called(name, args) == [name |-> <<name>>, args |-> args]

\* f(0) + x(2) has called f, then x, and added what they returned
C16_BothCalled ==
    /\ BinOpOfOperands
    /\ result.expr.Op = "+"
    /\ result.calls = <<Called("Succeeds", <<Int64V(0)>>), Called("Fails", <<Int64V(2)>>)>>
    /\ result.err = ErrorVal(<<"boom">>)

\* f(0) / x(2) has stopped at the error of f
C16_LeftFailed ==
    /\ BinOpOfOperands
    /\ result.expr.RHS = CallExpr(<<"x">>, <<LitExpr(Int64V(2))>>)
    /\ <<"x">> \in DOMAIN env /\ env[<<"x">>] = Succeeds
    /\ result.calls = <<Called("Fails", <<Int64V(0)>>)>>
    /\ result.err = ErrorVal(<<"boom">>)


(***************************************************************************)
(* Order of evaluation of a call.                                          *)
(***************************************************************************)
CallOfOperands == Returned("Eval") /\ result.expr.type = "CallExpr"

\* the host calls of the arguments 1..k, in this order
RECURSIVE CallsUpTo(_, _)
CallsUpTo(rs, k) == IF k = 0 THEN <<>> ELSE CallsUpTo(rs, k - 1) \o rs[k].calls

\* C17: the arguments of a call are evaluated in the order a1..an and the
\* callable is invoked once, after all of them, with their values in the
\* same positions; when ak returns an error no later argument is evaluated,
\* the callable is not invoked and the result is (nil, that error); when
\* the name is unbound no argument is evaluated.
C17_ArgumentsInOrder ==
    CallOfOperands =>
        LET n == result.expr.Name
            as == result.expr.Exprs
            rs == [i \in 1..Len(as) |-> Eval(env, as[i])]
            bad == {i \in 1..Len(as) : rs[i].panic \/ rs[i].err # NilVal}
            k == CHOOSE i \in bad : \A j \in bad : i <= j
        IN IF n \notin DOMAIN env
           THEN /\ ReturnsError
                /\ result.err = ErrorVal(<<"invalid token: ">> \o n)
                /\ result.calls = <<>>
           ELSE IF bad # {}
           THEN IF rs[k].panic THEN result.panic
                ELSE /\ ReturnsError
                     /\ result.err = rs[k].err
                     /\ result.calls = CallsUpTo(rs, k)
           ELSE Len(as) = Len(env[n].in) =>
                   /\ ~result.panic
                   /\ result.calls =
                         Append(CallsUpTo(rs, Len(as)),
                                [name |-> env[n].name,
                                 args |-> [i \in 1..Len(as) |-> rs[i].v]])

\* f(x(0), 2) has called x and then f with what x returned and 2
C17_CalledAfterArguments ==
    /\ CallOfOperands
    /\ result.expr.Name = <<"f">>
    /\ result.calls = <<Called("Succeeds", <<Int64V(0)>>),
                        Called("Both", <<Int64V(3), Int64V(2)>>)>>
    /\ result.v = Int64V(3)

\* f(x(0), x(2)) has stopped at the error of x(0)
C17_FirstArgumentFailed ==
    /\ CallOfOperands
    /\ Len(result.expr.Exprs) = 2
    /\ result.expr.Exprs[2] = CallExpr(<<"x">>, <<LitExpr(Int64V(2))>>)
    /\ result.calls = <<Called("Fails", <<Int64V(0)>>)>>
    /\ result.err = ErrorVal(<<"boom">>)

\* z(x(0)) has called nothing
C17_UnboundCallee ==
    /\ CallOfOperands
    /\ result.expr = CallExpr(Unbound, <<CallExpr(<<"x">>, <<LitExpr(Int64V(0))>>)>>)
    /\ <<"x">> \in DOMAIN env /\ env[<<"x">>] = Succeeds
    /\ result.calls = <<>>


(***************************************************************************)
(* Postfix forms bind tighter than the binary operators.                   *)
(***************************************************************************)
NameOf(n) == [type |-> "IdentExpr", Name |-> <<n>>]

MemberOf(l, n) == [type |-> "MemberExpr", LHS |-> l, Name |-> <<n>>]

ItemOf(l, i) == [type |-> "ItemExpr", LHS |-> l, Index |-> i]

\* the AST in which the postfix form of a source of PostfixSources binds tighter
PostfixAST(s) ==
    CASE Len(s) = 9 ->
           ItemOf([type |-> "MethodCallExpr", LHS |-> NameOf("a"), Name |-> <<"b">>,
                   Exprs |-> <<NameOf("c")>>],
                  NameOf("d"))
      [] Len(s) = 5 /\ s[2].char = 46 /\ s[4].char = 46 ->
           MemberOf(MemberOf(NameOf("a"), "b"), "c")
      [] Len(s) = 5 /\ s[2].char = 46 /\ s[4].char # 46 ->
           Node(s[4].char, MemberOf(NameOf("a"), "b"), NameOf("x"))
      [] Len(s) = 5 /\ s[2].char # 46 ->
           Node(s[2].char, NameOf("x"), MemberOf(NameOf("a"), "b"))
      [] Len(s) = 6 /\ s[4].char = 91 ->
           Node(s[2].char, NameOf("x"), ItemOf(NameOf("a"), NameOf("i")))
      [] OTHER ->
           Node(s[2].char, NameOf("x"),
                [type |-> "CallExpr", Name |-> <<"f">>, Exprs |-> <<NameOf("y")>>])

PostfixCompiled == Returned("Compile") /\ src \in PostfixSources

\* C18: a . b . c compiles to the member c of the member b of a;
\* a . b ( c ) [ d ] to the item d of the method call; for each operator
\* x op a . b, x op a [ i ] and x op f ( y ) compile to the operation on x
\* and the postfix form, and a . b op x to the operation on a . b and x.
C18_PostfixBindsTighter ==
    PostfixCompiled => compiled = [e |-> PostfixAST(src), err |-> NilVal]

\* a . b ( c ) [ d ] has been compiled
C18_ItemOfMethodCall ==
    /\ PostfixCompiled
    /\ Len(src) = 9
    /\ compiled.e.type = "ItemExpr"
    /\ compiled.e.LHS.type = "MethodCallExpr"

\* x * a . b has been compiled
C18_OperandIsMember ==
    /\ PostfixCompiled
    /\ Codes(src) = <<IDENT, 42, IDENT, 46, IDENT>>
    /\ compiled.e.type = "BinOpExpr"
    /\ compiled.e.RHS.type = "MemberExpr"


(***************************************************************************)
(* Termination of Parse and the bounds of its stack.                       *)
(***************************************************************************)
Running == hpc = "Compile" /\ parser.pc \notin {"ret0", "ret1"}

\* the step of yynewstate that shifts the lookahead
Shift == Running /\ parser.pc = "yynewstate" /\ parser'.pc = "yystack"

\* C19: Parse terminates: once Compile has called it, it reaches return 0
\* or return 1, and so it does once the lexer has reported the end of the
\* input; every shift consumes one token; and the index into the stack is
\* at least 0 and inside the stack, which is doubled when it is full,
\* wherever Parse reads or writes the stack.
C19_ParseTerminates ==
    /\ [](hpc = "Compile" => <>(parser.pc \in {"ret0", "ret1"}))
    /\ [](Running /\ AtEof(src) => <>(parser.pc \in {"ret0", "ret1"}))
    /\ [][Shift => /\ parser'.char = -1 /\ parser'.yytoken = -1
                   /\ \/ parser.char > 0 /\ src' = src
                      \/ parser.char < 0 /\ Len(src') = Len(src) + 1]_vars
    /\ [](Running =>
            /\ len(parser.yyS) \in {yyInitialStackSize, 2 * yyInitialStackSize}
            /\ IF parser.pc = "yystack"
               THEN -1 <= parser.yyp /\ parser.yyp + 1 <= len(parser.yyS)
               ELSE 0 <= parser.yyp /\ parser.yyp < len(parser.yyS))

\* Parse has returned after it doubled its stack
C19_StackDoubled ==
    /\ hpc = "Compile"
    /\ parser.pc = "ret1"
    /\ len(parser.yyS) = 2 * yyInitialStackSize
    /\ Len(src) > MaxDeepTokens


(***************************************************************************)
(* Eval of a loop.                                                         *)
(***************************************************************************)
ForEvaluated == Returned("Eval") /\ result.expr.type = "ForExpr"

\* C20: Eval of the ForExpr of a compiled `for ... in ...` source returns
\* (nil, nil): no error and no fatal error, no host call, and the
\* environment as it was, whatever the body would evaluate to.
C20_ForEvaluatesNothing ==
    /\ [](ForEvaluated =>
            /\ ~result.panic
            /\ result.v = NilVal
            /\ result.err = NilVal
            /\ result.calls = <<>>
            /\ env = written)
    /\ [][hpc = "compiled" /\ hpc' = "returned" /\ compiled.e.type = "ForExpr"
             => env' = env /\ result'.expr = compiled.e]_vars

\* a loop over the unbound b has been evaluated
C20_UnboundBody ==
    /\ ForEvaluated
    /\ result.expr.Body = [type |-> "IdentExpr", Name |-> <<"b">>]
    /\ result.err = NilVal

\* a loop whose body calls the integer a has been evaluated
C20_BodyWouldFail ==
    /\ ForEvaluated
    /\ result.expr.Body.type = "CallExpr"
    /\ <<"a">> \in DOMAIN env
    /\ Eval(env, result.expr.Body).panic
    /\ ~result.panic

====
